---- MODULE Spec2Model ----
(***************************************************************************)
(* Divvy: expense splitting (createExpenseAction, ManualExpenseModal) and  *)
(* the Lemon Squeezy subscription webhook (processSubscriptionEvent).      *)
(*                                                                         *)
(* Money is counted in integer cents.  Intermediate JavaScript numbers     *)
(* (item shares, proportions) are exact rationals <<numerator,             *)
(* denominator>>; toFixed(2) and the numeric(10,2) columns round them to   *)
(* whole cents, half a cent upwards.                                       *)
(***************************************************************************)
EXTENDS Integers, Sequences, FiniteSets, TLC

VARIABLES
    \* expense tables (rows in insertion order, id = position)
    expenses, expenseItems, itemAssignments, expenseSplits,
    \* the createExpenseAction request in flight, and the last outcome
    req, response,
    \* ManualExpenseModal state
    modalOpen, formSplitType, formAmount, formSplitBetween, customAmounts,
    items, participants, tax, tip,
    \* billing tables, webhook log, clock, last HTTP status
    users, plans, subscriptions, webhookEvents, now, httpStatus,
    \* the webhook requests being handled: where each is and what it holds
    handlers,
    \* receipt scans: the processReceiptAction calls in progress, the
    \* ai_scan_logs table, and what the limit check answered to each call
    scanCalls, aiScanLogs, scanChecks,
    \* the rate limiter's in-memory store and last cleanup time, and what
    \* checkRateLimit answered to each call
    rateLimitStore, lastCleanup, rateLimitResults,
    \* the pending_notifications table, the digest cron runs in progress and
    \* the digest emails that were sent
    pendingNotifications, digestRuns, sentDigests

expenseVars == <<expenses, expenseItems, itemAssignments, expenseSplits>>
callVars == <<req, response>>
formVars == <<modalOpen, formSplitType, formAmount, formSplitBetween, customAmounts,
              items, participants, tax, tip>>
billingVars == <<users, plans, subscriptions, webhookEvents, now, httpStatus, handlers>>
scanVars == <<scanCalls, aiScanLogs, scanChecks>>
rateVars == <<rateLimitStore, lastCleanup, rateLimitResults>>
digestVars == <<pendingNotifications, digestRuns, sentDigests>>
serviceVars == <<scanVars, rateVars, digestVars>>
vars == <<expenseVars, callVars, formVars, billingVars, serviceVars>>

\* ------------------------------------------------------------------ bounds
MaxItems == 2
MaxCustomSplits == 2
MaxExpenses == 1
MaxEvents == 3
MaxTime == 1
MaxDeliveries == 2
MaxScans == 4
MaxCalls == 4
MaxClock == 3

\* ------------------------------------------------------------------ people
NoUser == "none"
NULL == "null"
UserOrder == <<"alice", "dave", "charlie", "eve">>
AllUsers == {UserOrder[i] : i \in DOMAIN UserOrder}
\* members of the one group the requests are for; eve has an account but is
\* not in the group
GroupMembers == {"alice", "dave", "charlie"}
GenericUsers == {"alice", "dave", "eve"}
Callers == {"alice", "eve", NoUser}

SeqOfSet(S) == SelectSeq(UserOrder, LAMBDA u : u \in S)
Range(s) == {s[i] : i \in DOMAIN s}

\* ------------------------------------------------------------------ numbers
RECURSIVE Gcd(_, _)
Gcd(a, b) == IF b = 0 THEN a ELSE Gcd(b, a % b)

Norm(r) == LET g == Gcd(r[1], r[2]) IN
           IF r[1] = 0 THEN <<0, 1>> ELSE <<r[1] \div g, r[2] \div g>>
Rat(n) == <<n, 1>>
RAdd(a, b) == Norm(<<a[1] * b[2] + b[1] * a[2], a[2] * b[2]>>)
RMul(a, b) == Norm(<<a[1] * b[1], a[2] * b[2]>>)
RDiv(a, b) == Norm(<<a[1] * b[2], a[2] * b[1]>>)

\* Number.prototype.toFixed(2) of a non-negative amount, as cents: the nearest
\* cent, the larger one on a tie.
ToFixed2(r) == (2 * r[1] + r[2]) \div (2 * r[2])

\* A decimal string stored in a numeric(10,2) column: rounded to the cent,
\* half away from zero.
Numeric2(r) == (2 * r[1] + r[2]) \div (2 * r[2])

RECURSIVE SumSeq(_, _)
SumSeq(s, i) == IF i > Len(s) THEN 0 ELSE s[i] + SumSeq(s, i + 1)

\* ------------------------------------------------- createExpenseAction
\* item.quantity || 1 : a missing quantity (modelled as 0) counts as 1
ItemQty(item) == IF item.quantity = 0 THEN 1 ELSE item.quantity
ItemTotal(item) == item.price * ItemQty(item)

\* userTotals: Record<string, number>, keys kept in insertion order
EmptyTotals == [keys |-> <<>>, val |-> [u \in {} |-> Rat(0)]]
HasKey(t, u) == u \in DOMAIN t.val
\* userTotals[u] || 0
GetOr0(t, u) == IF HasKey(t, u) THEN t.val[u] ELSE Rat(0)
Put(t, u, v) ==
    [keys |-> IF HasKey(t, u) THEN t.keys ELSE Append(t.keys, u),
     val  |-> [x \in (DOMAIN t.val) \cup {u} |-> IF x = u THEN v ELSE t.val[x]]]

\* for (const assignedUserId of item.assignedTo) userTotals[id] += perPersonAmount
RECURSIVE AddPerPerson(_, _, _, _)
AddPerPerson(t, assignedTo, perPersonAmount, i) ==
    IF i > Len(assignedTo) THEN t
    ELSE AddPerPerson(
            Put(t, assignedTo[i], RAdd(GetOr0(t, assignedTo[i]), perPersonAmount)),
            assignedTo, perPersonAmount, i + 1)

\* itemTotal / item.assignedTo.length
PerPersonAmount(item) == RDiv(Rat(ItemTotal(item)), Rat(Len(item.assignedTo)))

\* First pass: non-shared item costs per user; shared items are set aside.
RECURSIVE FirstPass(_, _, _)
FirstPass(dataItems, i, acc) ==
    IF i > Len(dataItems) THEN acc
    ELSE LET item == dataItems[i] IN
         IF item.isSharedCost
         THEN FirstPass(dataItems, i + 1,
                        [acc EXCEPT !.sharedCosts = Append(@, item)])
         ELSE FirstPass(dataItems, i + 1,
                  [userTotals |->
                       IF Len(item.assignedTo) = 0 THEN acc.userTotals
                       ELSE AddPerPerson(acc.userTotals, item.assignedTo,
                                         PerPersonAmount(item), 1),
                   totalNonSharedCost |-> acc.totalNonSharedCost + ItemTotal(item),
                   sharedCosts |-> acc.sharedCosts])

\* sharedCosts.reduce((sum, item) => sum + item.price * (item.quantity || 1), 0)
TotalSharedCost(sharedCosts) ==
    SumSeq([i \in DOMAIN sharedCosts |-> ItemTotal(sharedCosts[i])], 1)

\* a slip: the proportion taken of the whole bill instead of the item total
WithShareOfWholeBill(amount, totalSharedCost, totalNonSharedCost) ==
    RAdd(amount, RMul(Rat(totalSharedCost),
                      RDiv(amount, Rat(totalNonSharedCost + totalSharedCost))))

\* amount + totalSharedCost * (amount / totalNonSharedCost)
WithProportionalShare(amount, totalSharedCost, totalNonSharedCost) ==
    RAdd(amount, RMul(Rat(totalSharedCost), RDiv(amount, Rat(totalNonSharedCost))))

\* for (const [uid, amount] of Object.entries(userTotals)) ...
DistributeProportionally(t, totalSharedCost, totalNonSharedCost) ==
    [keys |-> t.keys,
     val  |-> [u \in DOMAIN t.val |->
                  WithProportionalShare(t.val[u], totalSharedCost, totalNonSharedCost)]]

\* const allUsers = new Set(); every assignee of every item, in first-seen order
RECURSIVE AllAssigned(_, _, _, _)
AllAssigned(dataItems, i, j, acc) ==
    IF i > Len(dataItems) THEN acc
    ELSE IF j > Len(dataItems[i].assignedTo) THEN AllAssigned(dataItems, i + 1, 1, acc)
    ELSE LET uid == dataItems[i].assignedTo[j] IN
         AllAssigned(dataItems, i, j + 1,
                     IF uid \in Range(acc) THEN acc ELSE Append(acc, uid))

\* only shared costs: totalSharedCost / allUsers.size added to every assigned user
DistributeEqually(t, dataItems, totalSharedCost) ==
    LET allUsers == AllAssigned(dataItems, 1, 1, <<>>)
        perPersonShared == RDiv(Rat(totalSharedCost), Rat(Len(allUsers)))
    IN  AddPerPerson(t, allUsers, perPersonShared, 1)

\* the by_item branch up to the totals the splits are made from
ItemUserTotals(dataItems) ==
    LET first == FirstPass(dataItems, 1,
                     [userTotals |-> EmptyTotals, totalNonSharedCost |-> 0,
                      sharedCosts |-> <<>>])
        totalSharedCost == TotalSharedCost(first.sharedCosts)
    IN  IF totalSharedCost > 0 /\ first.totalNonSharedCost > 0
        THEN DistributeProportionally(first.userTotals, totalSharedCost,
                                      first.totalNonSharedCost)
        ELSE IF totalSharedCost > 0 /\ Len(first.userTotals.keys) > 0
        THEN DistributeEqually(first.userTotals, dataItems, totalSharedCost)
        ELSE first.userTotals

\* Object.entries(userTotals).map(... amount: amount.toFixed(2))
ItemSplits(expenseId, dataItems) ==
    LET t == ItemUserTotals(dataItems) IN
    [k \in DOMAIN t.keys |->
        [expenseId |-> expenseId, userId |-> t.keys[k],
         amount |-> ToFixed2(t.val[t.keys[k]])]]

\* data.customSplits.map(... amount: split.amount.toString())
CustomSplits(expenseId, customSplits) ==
    [k \in DOMAIN customSplits |->
        [expenseId |-> expenseId, userId |-> customSplits[k].userId,
         amount |-> Numeric2(Rat(customSplits[k].amount))]]

\* splitAmount = data.amount / data.splitBetween.length; amount: splitAmount.toString()
EqualSplits(expenseId, amount, splitBetween) ==
    [k \in DOMAIN splitBetween |->
        [expenseId |-> expenseId, userId |-> splitBetween[k],
         amount |-> Numeric2(RDiv(Rat(amount), Rat(Len(splitBetween))))]]

\* sharePercentage: (100 / item.assignedTo.length).toFixed(2), in hundredths
SharePercentage(item) == ToFixed2(<<10000, Len(item.assignedTo)>>)

\* for (const item of data.items): insert the item row, then its assignments
RECURSIVE InsertItems(_, _, _, _)
InsertItems(dataItems, i, expenseId, tables) ==
    IF i > Len(dataItems) THEN tables
    ELSE LET item == dataItems[i]
             itemId == Len(tables.expenseItems) + 1
             row == [expenseId |-> expenseId, price |-> item.price,
                     quantity |-> ItemQty(item), isSharedCost |-> item.isSharedCost]
             assignmentsToInsert ==
                 [k \in DOMAIN item.assignedTo |->
                     [itemId |-> itemId, userId |-> item.assignedTo[k],
                      sharePercentage |-> SharePercentage(item)]]
         IN  InsertItems(dataItems, i + 1, expenseId,
                 [expenseItems |-> Append(tables.expenseItems, row),
                  itemAssignments |->
                      IF Len(item.assignedTo) > 0
                      THEN tables.itemAssignments \o assignmentsToInsert
                      ELSE tables.itemAssignments])

\* data.items && data.items.length > 0 (a missing list is the empty list)
IsByItem(data) == data.splitType = "by_item" /\ Len(data.items) > 0
\* data.customSplits is optional: hasCustomSplits tells whether it was sent
IsCustom(data) == data.splitType = "custom" /\ data.hasCustomSplits

SplitsToInsert(expenseId, data) ==
    IF IsByItem(data) THEN ItemSplits(expenseId, data.items)
    ELSE IF IsCustom(data) THEN CustomSplits(expenseId, data.customSplits)
    ELSE EqualSplits(expenseId, data.amount, data.splitBetween)

\* The server action, called by `caller` (NoUser: not signed in).
createExpenseAction(data, caller) ==
    IF caller = NoUser
    THEN /\ response' = "Unauthorized"
         /\ UNCHANGED expenseVars
    ELSE IF caller \notin GroupMembers
    THEN \* 'You are not a member of this group', rethrown by the catch
         /\ response' = "Failed to create expense"
         /\ UNCHANGED expenseVars
    ELSE LET newExpenseId == Len(expenses) + 1
             newExpense == [amount |-> data.amount, paidById |-> data.paidById,
                            splitMethod |-> data.splitType]
             tables == IF IsByItem(data)
                       THEN InsertItems(data.items, 1, newExpenseId,
                                [expenseItems |-> expenseItems,
                                 itemAssignments |-> itemAssignments])
                       ELSE [expenseItems |-> expenseItems,
                             itemAssignments |-> itemAssignments]
         IN  /\ expenses' = Append(expenses, newExpense)
             /\ expenseItems' = tables.expenseItems
             /\ itemAssignments' = tables.itemAssignments
             /\ expenseSplits' = expenseSplits \o SplitsToInsert(newExpenseId, data)
             /\ response' = "success"

\* ------------------------------------------------- requests to the action
Prices == {0, 1}
SharedPrices == {1, 3}
Quantities == {0, 2}
Amounts == {0, 1, 2, 10}
SplitAmounts == {0, 1, 2}

RECURSIVE SeqsUpTo(_, _)
SeqsUpTo(S, n) ==
    IF n = 0 THEN {<<>>}
    ELSE LET shorter == SeqsUpTo(S, n - 1) IN
         shorter \cup {Append(s, x) : s \in shorter, x \in S}

ItemPool ==
    {[price |-> p, quantity |-> q, isSharedCost |-> FALSE, assignedTo |-> SeqOfSet(A)] :
        p \in Prices, q \in Quantities, A \in SUBSET GenericUsers}
    \cup
    {[price |-> p, quantity |-> 1, isSharedCost |-> TRUE, assignedTo |-> SeqOfSet(A)] :
        p \in SharedPrices, A \in {{}, {"dave"}}}

ItemsTotal(dataItems) == SumSeq([i \in DOMAIN dataItems |-> ItemTotal(dataItems[i])], 1)
AssignedUsers(dataItems) == UNION {Range(dataItems[i].assignedTo) : i \in DOMAIN dataItems}

\* by_item, as the modal sends it: amount = items + tax + tip, splitBetween =
\* everybody assigned to something
ByItemRequest(dataItems) ==
    [splitType |-> "by_item", amount |-> ItemsTotal(dataItems), paidById |-> "alice",
     splitBetween |-> SeqOfSet(AssignedUsers(dataItems)),
     hasCustomSplits |-> FALSE, customSplits |-> <<>>, items |-> dataItems]

\* the restaurant bill of the seed data and its test
RestaurantDinner ==
    <<[price |-> 1500, quantity |-> 1, isSharedCost |-> FALSE, assignedTo |-> <<"alice">>],
      [price |-> 3500, quantity |-> 1, isSharedCost |-> FALSE, assignedTo |-> <<"dave">>],
      [price |-> 2500, quantity |-> 1, isSharedCost |-> FALSE, assignedTo |-> <<"charlie">>],
      [price |-> 675, quantity |-> 1, isSharedCost |-> TRUE, assignedTo |-> <<>>],
      [price |-> 450, quantity |-> 1, isSharedCost |-> TRUE, assignedTo |-> <<>>]>>

ByItemRequests ==
    {ByItemRequest(its) : its \in SeqsUpTo(ItemPool, MaxItems)}
    \cup {ByItemRequest(RestaurantDinner)}

CustomRequests ==
    {[splitType |-> "custom", amount |-> a, paidById |-> "alice",
      splitBetween |-> SeqOfSet({cs[i].userId : i \in DOMAIN cs}),
      hasCustomSplits |-> TRUE, customSplits |-> cs, items |-> <<>>] :
        a \in Amounts,
        cs \in SeqsUpTo([userId : GenericUsers, amount : SplitAmounts], MaxCustomSplits)}

EqualRequests ==
    {[splitType |-> "equal", amount |-> a, paidById |-> "alice",
      splitBetween |-> SeqOfSet(S),
      hasCustomSplits |-> FALSE, customSplits |-> <<>>, items |-> <<>>] :
        a \in Amounts, S \in SUBSET AllUsers}

Requests == ByItemRequests \cup CustomRequests \cup EqualRequests

NoRequest ==
    [splitType |-> "none", amount |-> 0, paidById |-> NoUser, splitBetween |-> <<>>,
     hasCustomSplits |-> FALSE, customSplits |-> <<>>, items |-> <<>>]

\* ------------------------------------------------- initial states
ExpenseInit ==
    /\ expenses = <<>>
    /\ expenseItems = <<>>
    /\ itemAssignments = <<>>
    /\ expenseSplits = <<>>
    /\ response = "none"

NoAmounts == [m \in {} |-> 0]

FormClosed ==
    /\ modalOpen = FALSE
    /\ formSplitType = "equal"
    /\ formAmount = 0
    /\ formSplitBetween = {}
    /\ customAmounts = NoAmounts
    /\ items = <<>>
    /\ participants = {}
    /\ tax = 0
    /\ tip = 0

\* dates are days on the model's clock; NoDate is a null timestamp
NoDate == -1

\* a freshly signed-up user: the column defaults of the users table
NewUser ==
    [subscriptionTier |-> "free", subscriptionStatus |-> "active", isPaused |-> FALSE,
     lemonSqueezyCustomerId |-> NULL, lemonSqueezySubscriptionId |-> NULL,
     currentPeriodEnd |-> NoDate,
     monthlyAiScansUsed |-> 0, lastScanReset |-> NoDate]

\* the plan catalogue has been synced for variant 1 only
SyncedPlans == <<[variantId |-> 1, price |-> "499"]>>
\* the requests the server can handle at the same time
Handlers == {1, 2}
NoPayload ==
    [event_name |-> "none", user_id |-> NoUser, id |-> "none", variant_id |-> 0,
     customer_id |-> "none", status |-> "none", renews_at |-> NoDate,
     ends_at |-> NoDate, paused |-> FALSE]
IdleHandler ==
    [pc |-> "idle", payload |-> NoPayload, eventId |-> 0, planId |-> 0, error |-> NULL]

BillingIdle ==
    /\ users = [u \in {"alice"} |-> NewUser]
    /\ plans = SyncedPlans
    /\ subscriptions = <<>>
    /\ webhookEvents = <<>>
    /\ now = 0
    /\ httpStatus = 0
    /\ handlers = [h \in Handlers |-> IdleHandler]

\* the processReceiptAction calls that can run at the same time
ScanCallIds == {1, 2}
IdleScanCall == [pc |-> "idle", userId |-> NoUser, hasFile |-> FALSE, checkId |-> 0,
                 limit |-> 0, currentUsage |-> 0, shouldReset |-> FALSE,
                 lastScanReset |-> NoDate, today |-> 0, readBack |-> 0]

ScanIdle ==
    /\ scanCalls = [c \in ScanCallIds |-> IdleScanCall]
    /\ aiScanLogs = <<>>
    /\ scanChecks = <<>>

\* new Map(), and lastCleanup = Date.now() when the module is loaded
RateIdle ==
    /\ rateLimitStore = [key \in {} |-> [count |-> 0, resetTime |-> 0]]
    /\ lastCleanup = 0
    /\ rateLimitResults = <<>>

DigestRunIds == {1, 2}
IdleDigestRun == [pc |-> "idle", userIds |-> {}, allNotifications |-> {},
                  processedIds |-> {}]

DigestIdle ==
    /\ pendingNotifications = <<>>
    /\ digestRuns = [r \in DigestRunIds |-> IdleDigestRun]
    /\ sentDigests = <<>>

ServiceIdle == ScanIdle /\ RateIdle /\ DigestIdle

\* ------------------------------------------------- Spec: calls of the action
Init ==
    /\ ExpenseInit
    /\ req \in Requests
    /\ FormClosed
    /\ BillingIdle
    /\ ServiceIdle

CallCreateExpense ==
    /\ Len(expenses) < MaxExpenses
    /\ \E caller \in Callers : createExpenseAction(req, caller)
    /\ UNCHANGED <<req, formVars, billingVars, serviceVars>>

Next == CallCreateExpense

Spec == Init /\ [][Next]_vars

\* ------------------------------------------------- calls that fail part-way
\* createExpenseAction issues its inserts one after another on db, outside
\* any transaction: when an insert throws after the expense row (and itemsDone
\* of its items) went in, the catch answers 'Failed to create expense' and the
\* rows already written stay.
createExpenseActionFailing(data, itemsDone) ==
    LET newExpenseId == Len(expenses) + 1
        newExpense == [amount |-> data.amount, paidById |-> data.paidById,
                       splitMethod |-> data.splitType]
        tables == InsertItems(SubSeq(data.items, 1, itemsDone), 1, newExpenseId,
                      [expenseItems |-> expenseItems,
                       itemAssignments |-> itemAssignments])
    IN  /\ expenses' = Append(expenses, newExpense)
        /\ expenseItems' = tables.expenseItems
        /\ itemAssignments' = tables.itemAssignments
        /\ UNCHANGED expenseSplits
        /\ response' = "Failed to create expense"

CallCreateExpenseFailing ==
    /\ Len(expenses) < MaxExpenses
    /\ \E itemsDone \in 0..Len(req.items) :
          /\ itemsDone > 0 => IsByItem(req)
          /\ createExpenseActionFailing(req, itemsDone)
    /\ UNCHANGED <<req, formVars, billingVars, serviceVars>>

FailureNext == CallCreateExpense \/ CallCreateExpenseFailing

FailureSpec == Init /\ [][FailureNext]_vars

\* ------------------------------------------------- ManualExpenseModal
\* The signed-in user and the members prop of the modal.
CurrentUser == "alice"
Members == GroupMembers
FormAmounts == {0, 1, 10}
TypedAmounts == {0, 1, 2}

\* useEffect [totalAmount, selectedMembers, splitType]: in equal mode the
\* custom amounts are reset to (totalAmount / n).toFixed(2) for the selected
EqualModeEffect(splitType, amount, selected, amounts) ==
    IF splitType = "equal" /\ amount > 0 /\ selected # {}
    THEN [m \in selected |-> ToFixed2(<<amount, Cardinality(selected)>>)]
    ELSE amounts

\* useEffect [splitType, members, participants.length]: by_item starts with
\* every member participating
ParticipantsEffect(splitType, ps) ==
    IF splitType = "by_item" /\ ps = {} /\ Members # {} THEN Members ELSE ps

\* a change of the equal/custom part of the form, followed by the effects
FormUpdate(splitType, amount, selected, amounts) ==
    /\ formSplitType' = splitType
    /\ formAmount' = amount
    /\ formSplitBetween' = selected
    /\ customAmounts' = EqualModeEffect(splitType, amount, selected, amounts)
    /\ participants' = ParticipantsEffect(splitType, participants)
    /\ UNCHANGED <<modalOpen, items, tax, tip>>

\* handleClose: reset(), setCustomAmounts({}), setItems([]), ...
handleClose ==
    /\ modalOpen' = FALSE
    /\ formSplitType' = "equal"
    /\ formAmount' = 0
    /\ formSplitBetween' = {}
    /\ customAmounts' = NoAmounts
    /\ items' = <<>>
    /\ participants' = {}
    /\ tax' = 0
    /\ tip' = 0

\* useEffect [open, ...]: the payer is the current user, everybody is selected
OpenModal ==
    /\ ~modalOpen
    /\ Len(expenses) < MaxExpenses
    /\ modalOpen' = TRUE
    /\ formSplitBetween' = Members
    /\ customAmounts' = EqualModeEffect(formSplitType, formAmount, Members, customAmounts)
    /\ UNCHANGED <<formSplitType, formAmount, items, participants, tax, tip>>
    /\ UNCHANGED <<expenseVars, callVars, billingVars, serviceVars>>

SetSplitType ==
    /\ modalOpen
    /\ \E t \in {"equal", "custom", "by_item"} :
          /\ t # formSplitType
          /\ FormUpdate(t, formAmount, formSplitBetween, customAmounts)
    /\ UNCHANGED <<expenseVars, callVars, billingVars, serviceVars>>

\* the amount input is rendered in equal mode only
SetAmount ==
    /\ modalOpen
    /\ formSplitType = "equal"
    /\ \E a \in FormAmounts :
          FormUpdate(formSplitType, a, formSplitBetween, customAmounts)
    /\ UNCHANGED <<expenseVars, callVars, billingVars, serviceVars>>

\* the splitBetween checkboxes, rendered in equal and custom mode
ToggleSplitBetween ==
    /\ modalOpen
    /\ formSplitType # "by_item"
    /\ \E m \in Members :
          FormUpdate(formSplitType, formAmount,
                     IF m \in formSplitBetween THEN formSplitBetween \ {m}
                     ELSE formSplitBetween \cup {m},
                     customAmounts)
    /\ UNCHANGED <<expenseVars, callVars, billingVars, serviceVars>>

handleSelectAll ==
    /\ modalOpen
    /\ formSplitType # "by_item"
    /\ FormUpdate(formSplitType, formAmount, Members, customAmounts)
    /\ UNCHANGED <<expenseVars, callVars, billingVars, serviceVars>>

\* one amount input per selected member, rendered in custom mode
handleCustomAmountChange ==
    /\ modalOpen
    /\ formSplitType = "custom"
    /\ \E memberId \in formSplitBetween, value \in TypedAmounts :
          FormUpdate(formSplitType, formAmount, formSplitBetween,
              [m \in (DOMAIN customAmounts) \cup {memberId} |->
                  IF m = memberId THEN value ELSE customAmounts[m]])
    /\ UNCHANGED <<expenseVars, callVars, billingVars, serviceVars>>

\* Object.values(customAmounts).reduce((sum, val) => sum + (parseFloat(val) || 0), 0)
CurrentTotal(amounts) ==
    LET ks == SeqOfSet(DOMAIN amounts) IN
    SumSeq([i \in DOMAIN ks |-> amounts[ks[i]]], 1)

\* Object.entries(customAmounts).filter(([userId]) => data.splitBetween.includes(userId))
FinalCustomSplits(amounts, selected) ==
    LET ks == SeqOfSet((DOMAIN amounts) \cap selected) IN
    [i \in DOMAIN ks |-> [userId |-> ks[i], amount |-> amounts[ks[i]]]]

\* tax and tip travel as shared-cost items without assignees
TaxTipItems ==
    (IF tax > 0 THEN <<[price |-> tax, quantity |-> 1, isSharedCost |-> TRUE,
                        assignedTo |-> <<>>]>> ELSE <<>>)
    \o
    (IF tip > 0 THEN <<[price |-> tip, quantity |-> 1, isSharedCost |-> TRUE,
                        assignedTo |-> <<>>]>> ELSE <<>>)

ItemsData ==
    [i \in DOMAIN items |->
        [price |-> items[i].price, quantity |-> items[i].quantity,
         isSharedCost |-> FALSE, assignedTo |-> items[i].assignedTo]]
    \o TaxTipItems

\* itemsSubtotal + taxAmount + tipAmount
FormItemsTotal ==
    SumSeq([i \in DOMAIN items |-> items[i].price * items[i].quantity], 1) + tax + tip

FormRejects ==
    /\ response' = "form error"
    /\ UNCHANGED <<req, expenseVars, formVars>>

\* the action is awaited inside onSubmit; on success the modal closes
SubmitRequest(data) ==
    /\ req' = data
    /\ createExpenseAction(data, CurrentUser)
    /\ handleClose

\* handleSubmit(onSubmit): the amount field is validated (required, min 0.01)
\* while its input is mounted, that is in equal mode
onSubmit ==
    /\ modalOpen
    /\ Len(expenses) < MaxExpenses
    /\ formSplitType = "equal" => formAmount > 0
    /\ IF formSplitType = "by_item"
       THEN IF Len(items) = 0
            THEN FormRejects
            ELSE IF \E i \in DOMAIN items :
                       ~items[i].isSharedCost /\ Len(items[i].assignedTo) = 0
            THEN FormRejects
            ELSE SubmitRequest(
                    [splitType |-> "by_item", amount |-> FormItemsTotal,
                     paidById |-> CurrentUser,
                     splitBetween |-> AllAssigned(items, 1, 1, <<>>),
                     hasCustomSplits |-> FALSE, customSplits |-> <<>>,
                     items |-> ItemsData])
       ELSE IF formSplitBetween = {}
       THEN FormRejects
       ELSE IF formSplitType = "custom"
       THEN IF CurrentTotal(customAmounts) <= 0
            THEN FormRejects
            ELSE SubmitRequest(
                    [splitType |-> "custom", amount |-> CurrentTotal(customAmounts),
                     paidById |-> CurrentUser,
                     splitBetween |-> SeqOfSet(formSplitBetween),
                     hasCustomSplits |-> TRUE,
                     customSplits |-> FinalCustomSplits(customAmounts, formSplitBetween),
                     items |-> <<>>])
       ELSE SubmitRequest(
                    [splitType |-> "equal", amount |-> formAmount,
                     paidById |-> CurrentUser,
                     splitBetween |-> SeqOfSet(formSplitBetween),
                     hasCustomSplits |-> FALSE, customSplits |-> <<>>,
                     items |-> <<>>])
    /\ UNCHANGED <<billingVars, serviceVars>>

FormInit ==
    /\ ExpenseInit
    /\ req = NoRequest
    /\ FormClosed
    /\ BillingIdle
    /\ ServiceIdle

FormNext ==
    \/ OpenModal
    \/ SetSplitType
    \/ SetAmount
    \/ ToggleSplitBetween
    \/ handleSelectAll
    \/ handleCustomAmountChange
    \/ onSubmit

FormSpec == FormInit /\ [][FormNext]_vars

\* ------------------------------------------------- reading the tables
RECURSIVE SumOver(_)
SumOver(f) ==
    IF DOMAIN f = {} THEN 0
    ELSE LET x == CHOOSE y \in DOMAIN f : TRUE IN
         f[x] + SumOver([y \in (DOMAIN f) \ {x} |-> f[y]])

RECURSIVE ProductOver(_)
ProductOver(f) ==
    IF DOMAIN f = {} THEN 1
    ELSE LET x == CHOOSE y \in DOMAIN f : TRUE IN
         f[x] * ProductOver([y \in (DOMAIN f) \ {x} |-> f[y]])

SplitRows(e) == {k \in DOMAIN expenseSplits : expenseSplits[k].expenseId = e}
SplitRowsOf(e, u) == {k \in SplitRows(e) : expenseSplits[k].userId = u}
SplitSum(e) == SumOver([k \in SplitRows(e) |-> expenseSplits[k].amount])
ItemRows(e) == {i \in DOMAIN expenseItems : expenseItems[i].expenseId = e}
NonSharedRows(e) == {i \in ItemRows(e) : ~expenseItems[i].isSharedCost}
SharedRows(e) == {i \in ItemRows(e) : expenseItems[i].isSharedCost}
RowTotal(i) == expenseItems[i].price * expenseItems[i].quantity
AssignmentRows(i) == {k \in DOMAIN itemAssignments : itemAssignments[k].itemId = i}
AssignmentRowsOf(i, u) == {k \in AssignmentRows(i) : itemAssignments[k].userId = u}
StoredNonShared(e) == SumOver([i \in NonSharedRows(e) |-> RowTotal(i)])
StoredShared(e) == SumOver([i \in SharedRows(e) |-> RowTotal(i)])
\* every non-shared item of the expense has at least one assignee
ValidItems(e) == \A i \in NonSharedRows(e) : AssignmentRows(i) # {}
Ordered(e) == {i \in NonSharedRows(e) : AssignmentRows(i) # {}}
ItemUsers(e) == {itemAssignments[k].userId :
                    k \in UNION {AssignmentRows(i) : i \in Ordered(e)}}

\* C1: for every by_item expense with valid items whose amount is
\* totalNonShared + totalShared, the split rows sum to the amount, to the cent.
C1_ItemSplitSum ==
    \A e \in DOMAIN expenses :
        (/\ expenses[e].splitMethod = "by_item"
         /\ ItemRows(e) # {}
         /\ ValidItems(e)
         /\ expenses[e].amount = StoredNonShared(e) + StoredShared(e))
        => SplitSum(e) = expenses[e].amount

\* C2: for every equal split among N >= 1 participants, the split rows sum
\* exactly to the expense amount.
C2_EqualSplitSum ==
    \A e \in DOMAIN expenses :
        (expenses[e].splitMethod = "equal" /\ SplitRows(e) # {})
        => SplitSum(e) = expenses[e].amount

\* C3: for a custom split submitted from the modal, the stored amount of the
\* expense is the sum of its split rows.
C3_CustomTotalIsSplitSum ==
    \A e \in DOMAIN expenses :
        expenses[e].splitMethod = "custom" => expenses[e].amount = SplitSum(e)

\* the user's item subtotal times CommonDenominator(e): every assigned item's
\* total divided evenly among that item's assignment rows
CommonDenominator(e) ==
    ProductOver([i \in Ordered(e) |-> Cardinality(AssignmentRows(i))])
ScaledSubtotal(e, u) ==
    SumOver([i \in Ordered(e) |->
        Cardinality(AssignmentRowsOf(i, u)) * RowTotal(i)
            * (CommonDenominator(e) \div Cardinality(AssignmentRows(i)))])
\* subtotal + totalShared * (subtotal / totalNonShared), to the nearest cent
ProportionalAmount(e, u) ==
    LET d == CommonDenominator(e)
        ns == StoredNonShared(e)
        num == ScaledSubtotal(e, u) * (ns + StoredShared(e))
    IN  (2 * num + d * ns) \div (2 * d * ns)

\* C4: with totalNonShared > 0 every user's by_item split is their item
\* subtotal plus totalShared * (subtotal / totalNonShared), rounded to cents,
\* and nobody else has a split; the restaurant dinner gives 17.25, 40.25 and
\* 28.75, summing to 86.25.
C4_ItemProportionality ==
    /\ \A e \in DOMAIN expenses :
        (/\ expenses[e].splitMethod = "by_item"
         /\ ItemRows(e) # {}
         /\ StoredNonShared(e) > 0)
        => /\ \A u \in ItemUsers(e) :
                /\ Cardinality(SplitRowsOf(e, u)) = 1
                /\ \A k \in SplitRowsOf(e, u) :
                      expenseSplits[k].amount = ProportionalAmount(e, u)
           /\ \A k \in SplitRows(e) : expenseSplits[k].userId \in ItemUsers(e)
    /\ (req.items = RestaurantDinner /\ response = "success")
        => \A e \in DOMAIN expenses :
              /\ {<<expenseSplits[k].userId, expenseSplits[k].amount>> :
                     k \in SplitRows(e)}
                 = {<<"alice", 1725>>, <<"dave", 4025>>, <<"charlie", 2875>>}
              /\ SplitSum(e) = 8625
              /\ expenses[e].amount = 8625

\* C4 witness: the restaurant dinner has been stored with its three splits.
C4_Witness ==
    /\ req.items = RestaurantDinner
    /\ response = "success"
    /\ Len(expenses) = 1
    /\ StoredNonShared(1) = 7500
    /\ StoredShared(1) = 1125
    /\ Cardinality(SplitRows(1)) = 3

\* what the claims call malformed split input
UnassignedItem(data) ==
    /\ data.splitType = "by_item"
    /\ \E i \in DOMAIN data.items :
          ~data.items[i].isSharedCost /\ Len(data.items[i].assignedTo) = 0
NoParticipants(data) ==
    \/ data.splitType = "equal" /\ Len(data.splitBetween) = 0
    \/ data.splitType = "custom" /\ Len(data.customSplits) = 0
    \/ data.splitType = "by_item" /\ AssignedUsers(data.items) = {}
Malformed(data) == UnassignedItem(data) \/ NoParticipants(data) \/ data.amount <= 0
NoRows ==
    /\ expenses = <<>>
    /\ expenseItems = <<>>
    /\ itemAssignments = <<>>
    /\ expenseSplits = <<>>

\* C5: a malformed request (unassigned non-shared item, no participants,
\* non-positive amount) is answered with an error and stores no row.
C5_MalformedRejected ==
    (response # "none" /\ Malformed(req)) => (response # "success" /\ NoRows)

\* C6: every stored split and item assignment belongs to a member of the
\* group; a request naming a non-member stores nothing.
C6_ParticipantsAreMembers ==
    /\ \A k \in DOMAIN expenseSplits : expenseSplits[k].userId \in GroupMembers
    /\ \A k \in DOMAIN itemAssignments : itemAssignments[k].userId \in GroupMembers

\* ------------------------------------------------- Lemon Squeezy webhook
Statuses == {"on_trial", "active", "paused", "past_due", "unpaid", "cancelled", "expired"}
subscriptionEvents ==
    {"subscription_created", "subscription_updated", "subscription_cancelled",
     "subscription_expired", "subscription_resumed", "subscription_paused"}
RenewsAt == 2
EndsAt == 1

\* meta.event_name, meta.custom_data.user_id (NoUser: absent), data.id and the
\* attributes the handler reads; paused stands for attributes.pause !== null
Payload(name, uid, id, variant, status) ==
    [event_name |-> name, user_id |-> uid, id |-> id, variant_id |-> variant,
     customer_id |-> "cus_1", status |-> status,
     renews_at |-> IF status \in {"cancelled", "expired"} THEN NoDate ELSE RenewsAt,
     ends_at |-> IF status \in {"cancelled", "expired"} THEN EndsAt ELSE NoDate,
     paused |-> (status = "paused")]

\* what the provider sends: each event with the status it goes with, and
\* subscription_updated with any status
Payloads ==
    {Payload("subscription_created", "alice", "sub_1", v, st) :
        v \in {1, 2}, st \in {"active", "on_trial"}}
    \cup {Payload("subscription_created", "alice", "sub_2", 1, "active"),
          Payload("subscription_created", "ghost", "sub_1", 1, "active"),
          Payload("subscription_created", NoUser, "sub_1", 1, "active")}
    \cup {Payload("subscription_updated", "alice", "sub_1", 1, st) : st \in Statuses}
    \cup {Payload("subscription_updated", "alice", "sub_1", 2, "active")}
    \cup {Payload("subscription_resumed", "alice", "sub_1", 1, "active"),
          Payload("subscription_paused", "alice", "sub_1", 1, "paused"),
          Payload("subscription_cancelled", "alice", "sub_1", 1, "cancelled"),
          Payload("subscription_expired", "alice", "sub_1", 1, "expired"),
          Payload("order_created", "alice", "sub_1", 1, "active")}

\* a slip: the result of the lookup is dropped
FindNoPlan(ps, variantId) == 0

\* db.query.plans.findFirst({ where: eq(plans.variantId, variant_id) }): the
\* plan's id, 0 when there is none
FindPlan(ps, variantId) ==
    IF \E k \in DOMAIN ps : ps[k].variantId = variantId
    THEN CHOOSE k \in DOMAIN ps : ps[k].variantId = variantId
    ELSE 0

\* a slip: a plain insert, without the conflict clause
InsertSubscription(subs, data) == Append(subs, data)

\* insert(subscriptions).values(data).onConflictDoUpdate({ target: lemonSqueezyId, set: data })
UpsertSubscription(subs, data) ==
    IF \E k \in DOMAIN subs : subs[k].lemonSqueezyId = data.lemonSqueezyId
    THEN [k \in DOMAIN subs |->
             IF subs[k].lemonSqueezyId = data.lemonSqueezyId THEN data ELSE subs[k]]
    ELSE Append(subs, data)

\* update(subscriptions).set({ status, ... }).where(eq(lemonSqueezyId, id))
SetSubscriptionStatus(subs, id, status, paused) ==
    [k \in DOMAIN subs |->
        IF subs[k].lemonSqueezyId = id
        THEN [subs[k] EXCEPT !.status = status, !.isPaused = paused]
        ELSE subs[k]]
SetSubscriptionEnd(subs, id, status, endsAt) ==
    [k \in DOMAIN subs |->
        IF subs[k].lemonSqueezyId = id
        THEN [subs[k] EXCEPT !.status = status, !.endsAt = endsAt]
        ELSE subs[k]]

\* the update(users).set(...) of each event
UserOnCreated(user, payload) ==
    [user EXCEPT !.subscriptionTier = "pro",
                 !.subscriptionStatus = payload.status,
                 !.lemonSqueezyCustomerId = payload.customer_id,
                 !.lemonSqueezySubscriptionId = payload.id,
                 !.currentPeriodEnd = payload.renews_at,
                 !.isPaused = FALSE]

\* a slip: only an active subscription counts as pro, a trial does not
UserOnUpdatedActiveOnly(user, payload) ==
    [user EXCEPT !.subscriptionTier = IF payload.status = "active" THEN "pro" ELSE "free",
                 !.subscriptionStatus = payload.status,
                 !.currentPeriodEnd = payload.renews_at,
                 !.isPaused = payload.paused]

UserOnUpdated(user, payload) ==
    [user EXCEPT !.subscriptionTier =
                     IF payload.status = "active" \/ payload.status = "on_trial"
                     THEN "pro" ELSE "free",
                 !.subscriptionStatus = payload.status,
                 !.currentPeriodEnd = payload.renews_at,
                 !.isPaused = payload.paused]

UserOnPaused(user) ==
    [user EXCEPT !.subscriptionStatus = "paused", !.isPaused = TRUE]

UserOnCancelled(user, payload) ==
    [user EXCEPT !.subscriptionStatus = "cancelled",
                 !.currentPeriodEnd = payload.ends_at]

\* a slip: the external subscription id is left on the user
UserOnExpiredKeepingId(user) ==
    [user EXCEPT !.subscriptionTier = "free",
                 !.subscriptionStatus = "expired",
                 !.isPaused = FALSE]

UserOnExpired(user) ==
    [user EXCEPT !.subscriptionTier = "free",
                 !.subscriptionStatus = "expired",
                 !.isPaused = FALSE,
                 !.lemonSqueezySubscriptionId = NULL]

\* the users row after the event's update(users).set(...).where(eq(users.id, userId))
UserAfterEvent(user, payload) ==
    CASE payload.event_name = "subscription_created" -> UserOnCreated(user, payload)
      [] payload.event_name \in {"subscription_updated", "subscription_resumed"} ->
            UserOnUpdated(user, payload)
      [] payload.event_name = "subscription_paused" -> UserOnPaused(user)
      [] payload.event_name = "subscription_cancelled" -> UserOnCancelled(user, payload)
      [] payload.event_name = "subscription_expired" -> UserOnExpired(user)
      [] OTHER -> user

\* the subscriptions table after the event's write
SubscriptionsAfterEvent(subs, payload, planId, today) ==
    LET subscriptionData ==
            [lemonSqueezyId |-> payload.id, status |-> payload.status,
             renewsAt |-> payload.renews_at, endsAt |-> payload.ends_at,
             isPaused |-> payload.paused, userId |-> payload.user_id,
             planId |-> planId]
    IN  CASE payload.event_name \in {"subscription_created", "subscription_updated",
                                     "subscription_resumed"} ->
                UpsertSubscription(subs, subscriptionData)
          [] payload.event_name = "subscription_paused" ->
                SetSubscriptionStatus(subs, payload.id, "paused", TRUE)
          [] payload.event_name = "subscription_cancelled" ->
                SetSubscriptionEnd(subs, payload.id, payload.status, payload.ends_at)
          [] payload.event_name = "subscription_expired" ->
                SetSubscriptionEnd(subs, payload.id, "expired", today)
          [] OTHER -> subs

\* processSubscriptionEvent: the tables it leaves, or the error it throws
\* (error = NULL: none) with the tables as they were
processSubscriptionEvent(us, ps, subs, payload, today) ==
    IF payload.user_id = NoUser
    THEN [error |-> "No user_id found in webhook custom_data",
          users |-> us, plans |-> ps, subscriptions |-> subs]
    ELSE IF payload.user_id \notin DOMAIN us
    THEN [error |-> "User not found", users |-> us, plans |-> ps, subscriptions |-> subs]
    ELSE LET found == FindPlan(ps, payload.variant_id)
             \* auto-create the plan when the variant is unknown
             plansAfter == IF found = 0
                           THEN Append(ps, [variantId |-> payload.variant_id, price |-> "0"])
                           ELSE ps
             planId == IF found = 0 THEN Len(ps) + 1 ELSE found
         IN  [error |-> NULL,
              users |-> [us EXCEPT ![payload.user_id] = UserAfterEvent(@, payload)],
              plans |-> plansAfter,
              subscriptions |-> SubscriptionsAfterEvent(subs, payload, planId, today)]

\* a slip: the row is stored without the body
StoredEventWithoutBody(payload) ==
    [eventName |-> payload.event_name, body |-> NoPayload, processed |-> FALSE,
     processingError |-> NULL]

\* storeWebhookEvent
StoredEvent(payload) ==
    [eventName |-> payload.event_name, body |-> payload, processed |-> FALSE,
     processingError |-> NULL]

\* a slip: the error message is not written
MarkProcessedDroppingError(events, eventId, error) ==
    [events EXCEPT ![eventId] = [@ EXCEPT !.processed = TRUE]]

\* markWebhookEventProcessed(eventId, error): an undefined error leaves the
\* column as it is
MarkProcessed(events, eventId, error) ==
    [events EXCEPT ![eventId] =
        [@ EXCEPT !.processed = TRUE,
                  !.processingError = IF error = NULL THEN @ ELSE error]]

\* process.env.LEMONSQUEEZY_WEBHOOK_SECRET (NULL: not set) and the
\* x-signature header: the hex HMAC-SHA256 of the raw body under a key, or
\* the empty string when the header is absent
Hmac(secret, payload) == <<secret, payload>>
NoSignature == <<>>
\* the <<x-signature, configured secret>> of a request carrying the payload:
\* signed by the provider; unsigned; signed for another body; and signed with
\* the empty key while no secret is configured
SignedRequests(payload) ==
    {<<Hmac("whsec", payload), "whsec">>,
     <<NoSignature, "whsec">>,
     <<Hmac("whsec", Payload("order_created", "alice", "sub_1", 1, "active")), "whsec">>,
     <<Hmac(NULL, payload), NULL>>}

\* a slip: the digest is computed even when no secret is configured
verifySignatureWithoutSecretCheck(payload, signature, secret) ==
    LET digest == Hmac(secret, payload)
    IN  IF Len(digest) # Len(signature) THEN FALSE ELSE digest = signature

verifySignature(payload, signature, secret) ==
    IF secret = NULL
    THEN FALSE
    ELSE LET digest == Hmac(secret, payload)
         IN  IF Len(digest) # Len(signature) THEN FALSE ELSE digest = signature

\* POST /api/webhooks/lemon-squeezy with a raw body and an x-signature header
POST(payload, signature, secret) ==
    IF ~verifySignature(payload, signature, secret)
    THEN /\ httpStatus' = 401
         /\ UNCHANGED <<users, plans, subscriptions, webhookEvents>>
    ELSE LET stored == Append(webhookEvents, StoredEvent(payload))
             eventId == Len(stored)
             result == IF payload.event_name \in subscriptionEvents
                       THEN processSubscriptionEvent(users, plans, subscriptions,
                                                     payload, now)
                       ELSE [error |-> NULL, users |-> users, plans |-> plans,
                             subscriptions |-> subscriptions]
         IN  /\ users' = result.users
             /\ plans' = result.plans
             /\ subscriptions' = result.subscriptions
             /\ webhookEvents' = MarkProcessed(stored, eventId, result.error)
             /\ httpStatus' = 200

Deliver ==
    /\ Len(webhookEvents) < MaxEvents
    /\ \E payload \in Payloads :
          \E request \in SignedRequests(payload) : POST(payload, request[1], request[2])
    /\ UNCHANGED <<now, handlers, expenseVars, callVars, formVars, serviceVars>>

Tick ==
    /\ now < MaxTime
    /\ now' = now + 1
    /\ UNCHANGED <<users, plans, subscriptions, webhookEvents, httpStatus, handlers>>
    /\ UNCHANGED <<expenseVars, callVars, formVars, serviceVars>>

WebhookInit ==
    /\ ExpenseInit
    /\ req = NoRequest
    /\ FormClosed
    /\ BillingIdle
    /\ ServiceIdle

WebhookNext == Deliver \/ Tick

WebhookSpec == WebhookInit /\ [][WebhookNext]_vars

\* ------------------------------------------------- requests in parallel
\* POST, one awaited database operation at a time: between two operations of
\* a request the other request may run, and the process may die.
RacingPayloads ==
    {Payload("subscription_created", "alice", "sub_1", 1, "active"),
     Payload("subscription_created", "alice", "sub_1", 2, "active"),
     Payload("subscription_updated", "alice", "sub_1", 1, "cancelled"),
     Payload("subscription_expired", "alice", "sub_1", 1, "expired"),
     Payload("subscription_created", "ghost", "sub_1", 1, "active"),
     Payload("subscription_created", NoUser, "sub_1", 1, "active"),
     Payload("order_created", "alice", "sub_1", 1, "active")}

SetHandler(h, handler) == handlers' = [handlers EXCEPT ![h] = handler]
Goto(h, pc) == SetHandler(h, [handlers[h] EXCEPT !.pc = pc])
Fail(h, message) == SetHandler(h, [handlers[h] EXCEPT !.pc = "mark", !.error = message])

\* verifySignature, storeWebhookEvent, and the checks made before the first
\* query of processSubscriptionEvent
Receive(h) ==
    /\ handlers[h].pc = "idle"
    /\ Len(webhookEvents) < MaxDeliveries
    /\ \E payload \in RacingPayloads :
          \E request \in SignedRequests(payload) :
             IF ~verifySignature(payload, request[1], request[2])
             THEN /\ httpStatus' = 401
                  /\ UNCHANGED <<webhookEvents, handlers>>
             ELSE /\ webhookEvents' = Append(webhookEvents, StoredEvent(payload))
                  /\ SetHandler(h,
                        [pc |-> IF payload.event_name \notin subscriptionEvents
                                    \/ payload.user_id = NoUser
                                THEN "mark" ELSE "findUser",
                         payload |-> payload,
                         eventId |-> Len(webhookEvents) + 1,
                         planId |-> 0,
                         error |-> IF payload.event_name \in subscriptionEvents
                                      /\ payload.user_id = NoUser
                                   THEN "No user_id found in webhook custom_data"
                                   ELSE NULL])
                  /\ UNCHANGED httpStatus
    /\ UNCHANGED <<users, plans, subscriptions, now>>
    /\ UNCHANGED <<expenseVars, callVars, formVars, serviceVars>>

\* db.query.users.findFirst
FindUser(h) ==
    /\ handlers[h].pc = "findUser"
    /\ IF handlers[h].payload.user_id \in DOMAIN users
       THEN Goto(h, "findPlan")
       ELSE Fail(h, "User not found")
    /\ UNCHANGED <<users, plans, subscriptions, webhookEvents, now, httpStatus>>
    /\ UNCHANGED <<expenseVars, callVars, formVars, serviceVars>>

\* db.query.plans.findFirst
FindPlanStep(h) ==
    /\ handlers[h].pc = "findPlan"
    /\ LET found == FindPlan(plans, handlers[h].payload.variant_id)
       IN  IF found = 0
           THEN Goto(h, "insertPlan")
           ELSE SetHandler(h, [handlers[h] EXCEPT !.pc = "write", !.planId = found])
    /\ UNCHANGED <<users, plans, subscriptions, webhookEvents, now, httpStatus>>
    /\ UNCHANGED <<expenseVars, callVars, formVars, serviceVars>>

\* db.insert(plans).values(...).returning(): plans.variantId is unique, so
\* the insert throws when the variant has a row by now
InsertPlan(h) ==
    /\ handlers[h].pc = "insertPlan"
    /\ IF FindPlan(plans, handlers[h].payload.variant_id) # 0
       THEN /\ Fail(h, "duplicate key value violates unique constraint")
            /\ UNCHANGED plans
       ELSE /\ plans' = Append(plans, [variantId |-> handlers[h].payload.variant_id,
                                       price |-> "0"])
            /\ SetHandler(h, [handlers[h] EXCEPT !.pc = "write",
                                                 !.planId = Len(plans) + 1])
    /\ UNCHANGED <<users, subscriptions, webhookEvents, now, httpStatus>>
    /\ UNCHANGED <<expenseVars, callVars, formVars, serviceVars>>

\* the event's write to subscriptions
WriteSubscription(h) ==
    /\ handlers[h].pc = "write"
    /\ subscriptions' = SubscriptionsAfterEvent(subscriptions, handlers[h].payload,
                                                handlers[h].planId, now)
    /\ Goto(h, "updateUser")
    /\ UNCHANGED <<users, plans, webhookEvents, now, httpStatus>>
    /\ UNCHANGED <<expenseVars, callVars, formVars, serviceVars>>

\* the event's update(users)
UpdateUser(h) ==
    /\ handlers[h].pc = "updateUser"
    /\ users' = [users EXCEPT ![handlers[h].payload.user_id] =
                                  UserAfterEvent(@, handlers[h].payload)]
    /\ Goto(h, "mark")
    /\ UNCHANGED <<plans, subscriptions, webhookEvents, now, httpStatus>>
    /\ UNCHANGED <<expenseVars, callVars, formVars, serviceVars>>

\* markWebhookEventProcessed and the 200 response
Mark(h) ==
    /\ handlers[h].pc = "mark"
    /\ webhookEvents' = MarkProcessed(webhookEvents, handlers[h].eventId,
                                      handlers[h].error)
    /\ httpStatus' = 200
    /\ SetHandler(h, IdleHandler)
    /\ UNCHANGED <<users, plans, subscriptions, now>>
    /\ UNCHANGED <<expenseVars, callVars, formVars, serviceVars>>

\* the process handling the request dies between two operations
Crash(h) ==
    /\ handlers[h].pc # "idle"
    /\ SetHandler(h, IdleHandler)
    /\ UNCHANGED <<users, plans, subscriptions, webhookEvents, now, httpStatus>>
    /\ UNCHANGED <<expenseVars, callVars, formVars, serviceVars>>

ConcurrentNext ==
    \E h \in Handlers :
        \/ Receive(h)
        \/ FindUser(h)
        \/ FindPlanStep(h)
        \/ InsertPlan(h)
        \/ WriteSubscription(h)
        \/ UpdateUser(h)
        \/ Mark(h)
        \/ Crash(h)

ConcurrentSpec == WebhookInit /\ [][ConcurrentNext]_vars

\* ------------------------------------------------- reprocess-webhooks.ts
\* the script's own processSubscriptionEvent: its update(users) and its write
\* to subscriptions for each event
ReprocessUserAfterEvent(user, payload) ==
    CASE payload.event_name = "subscription_created" -> UserOnCreated(user, payload)
      [] payload.event_name \in {"subscription_updated", "subscription_resumed"} ->
            UserOnUpdated(user, payload)
      [] payload.event_name = "subscription_paused" -> UserOnPaused(user)
      [] payload.event_name \in {"subscription_cancelled", "subscription_expired"} ->
            [user EXCEPT !.subscriptionTier = "free",
                         !.subscriptionStatus = payload.status,
                         !.isPaused = FALSE]
      [] OTHER -> user

ReprocessSubscriptionsAfterEvent(subs, payload, planId, today) ==
    LET subscriptionData ==
            [lemonSqueezyId |-> payload.id, status |-> payload.status,
             renewsAt |-> payload.renews_at, endsAt |-> payload.ends_at,
             isPaused |-> payload.paused, userId |-> payload.user_id,
             planId |-> planId]
    IN  CASE payload.event_name \in {"subscription_created", "subscription_updated",
                                     "subscription_resumed"} ->
                UpsertSubscription(subs, subscriptionData)
          [] payload.event_name = "subscription_paused" ->
                SetSubscriptionStatus(subs, payload.id, "paused", TRUE)
          [] payload.event_name \in {"subscription_cancelled", "subscription_expired"} ->
                SetSubscriptionEnd(subs, payload.id, payload.status,
                    IF payload.ends_at # NoDate THEN payload.ends_at ELSE today)
          [] OTHER -> subs

reprocessSubscriptionEvent(us, ps, subs, payload, today) ==
    IF payload.user_id = NoUser
    THEN [error |-> "No user_id found in webhook custom_data",
          users |-> us, plans |-> ps, subscriptions |-> subs]
    ELSE IF payload.user_id \notin DOMAIN us
    THEN [error |-> "User not found", users |-> us, plans |-> ps, subscriptions |-> subs]
    ELSE LET found == FindPlan(ps, payload.variant_id)
             \* insert(plans)...onConflictDoNothing(), then the lookup again
             plansAfter == IF found = 0
                           THEN Append(ps, [variantId |-> payload.variant_id, price |-> "0"])
                           ELSE ps
             planId == FindPlan(plansAfter, payload.variant_id)
         IN  [error |-> NULL,
              users |-> [us EXCEPT ![payload.user_id] =
                                       ReprocessUserAfterEvent(@, payload)],
              plans |-> plansAfter,
              subscriptions |->
                  ReprocessSubscriptionsAfterEvent(subs, payload, planId, today)]

\* select().from(webhookEvents).where(processed = true and processingError is
\* not null): the ids, which the query returns in no stated order
FailedEvents(events) ==
    {k \in DOMAIN events : events[k].processed /\ events[k].processingError # NULL}
Orders(S) ==
    {order \in [1..Cardinality(S) -> S] :
        \A i, j \in 1..Cardinality(S) : order[i] = order[j] => i = j}

\* a slip: the row is marked unprocessed so that it is picked up again
SetProcessingErrorAndReset(events, eventId, error) ==
    [events EXCEPT ![eventId] = [@ EXCEPT !.processingError = error,
                                          !.processed = FALSE]]

\* update(webhookEvents).set({ processingError }).where(eq(id, event.id))
SetProcessingError(events, eventId, error) ==
    [events EXCEPT ![eventId] = [@ EXCEPT !.processingError = error]]

\* the loop of main over the failed events, from the i-th on
RECURSIVE ReprocessFrom(_, _, _, _)
ReprocessFrom(order, i, st, today) ==
    IF i > Len(order) THEN st
    ELSE LET id == order[i]
             result == reprocessSubscriptionEvent(st.users, st.plans, st.subscriptions,
                                                  st.events[id].body, today)
         IN  ReprocessFrom(order, i + 1,
                 IF result.error = NULL
                 THEN [users |-> result.users, plans |-> result.plans,
                       subscriptions |-> result.subscriptions,
                       events |-> SetProcessingError(st.events, id, NULL)]
                 ELSE [st EXCEPT !.events =
                          SetProcessingError(@, id, "Reprocess failed: " \o result.error)],
                 today)

\* npm run reprocess:webhooks
Reprocess ==
    /\ FailedEvents(webhookEvents) # {}
    /\ \E order \in Orders(FailedEvents(webhookEvents)) :
          LET st == ReprocessFrom(order, 1,
                        [users |-> users, plans |-> plans,
                         subscriptions |-> subscriptions, events |-> webhookEvents],
                        now)
          IN  /\ users' = st.users
              /\ plans' = st.plans
              /\ subscriptions' = st.subscriptions
              /\ webhookEvents' = st.events
    /\ UNCHANGED <<now, httpStatus, handlers>>
    /\ UNCHANGED <<expenseVars, callVars, formVars, serviceVars>>

\* events for a customer whose users row does not exist yet, and two more
LatePayloads ==
    {Payload("subscription_created", "ghost", "sub_9", 1, "active"),
     Payload("subscription_updated", "ghost", "sub_9", 1, "active"),
     Payload("subscription_updated", "ghost", "sub_9", 1, "past_due"),
     Payload("subscription_resumed", "ghost", "sub_9", 1, "active"),
     Payload("subscription_paused", "ghost", "sub_9", 1, "paused"),
     Payload("subscription_cancelled", "ghost", "sub_9", 1, "cancelled"),
     Payload("subscription_expired", "ghost", "sub_9", 1, "expired"),
     Payload("subscription_created", NoUser, "sub_9", 1, "active"),
     Payload("subscription_created", "alice", "sub_1", 1, "active")}

DeliverLate ==
    /\ Len(webhookEvents) < MaxDeliveries
    /\ \E payload \in LatePayloads :
          \E request \in SignedRequests(payload) : POST(payload, request[1], request[2])
    /\ UNCHANGED <<now, handlers, expenseVars, callVars, formVars, serviceVars>>

\* the customer's users row is created: tier free, status active
SignUp ==
    /\ "ghost" \notin DOMAIN users
    /\ users' = [u \in DOMAIN users \cup {"ghost"} |->
                    IF u = "ghost" THEN NewUser ELSE users[u]]
    /\ UNCHANGED <<plans, subscriptions, webhookEvents, now, httpStatus, handlers>>
    /\ UNCHANGED <<expenseVars, callVars, formVars, serviceVars>>

ReprocessNext == DeliverLate \/ SignUp \/ Reprocess \/ Tick

ReprocessSpec == WebhookInit /\ [][ReprocessNext]_vars

\* ------------------------------------------------- reading the tier
\* isUserPro (queries/users.ts) and isUserOnPaidTier (queries/subscriptions.ts):
\* user?.subscriptionTier === 'pro'
isUserPro(us, userId) ==
    IF userId \in DOMAIN us THEN us[userId].subscriptionTier = "pro" ELSE FALSE
isUserOnPaidTier(us, userId) ==
    IF userId \in DOMAIN us THEN us[userId].subscriptionTier = "pro" ELSE FALSE

FREE_GROUP_LIMIT == 3
\* getGroupLimitStatus for a signed-in user who is in groupCount groups
getGroupLimitStatus(us, userId, groupCount) ==
    LET isPro == us[userId].subscriptionTier = "pro"
    IN  [groupCount |-> groupCount,
         canCreateGroup |-> (isPro \/ groupCount < FREE_GROUP_LIMIT),
         remaining |-> IF isPro THEN -1
                       ELSE IF FREE_GROUP_LIMIT - groupCount > 0
                            THEN FREE_GROUP_LIMIT - groupCount ELSE 0,
         isPro |-> isPro]

\* ------------------------------------------------- webhook claims
\* the event row a step appends, and whether the step appended one
Delivered == Len(webhookEvents') = Len(webhookEvents) + 1
NewEvent == webhookEvents'[Len(webhookEvents')]
Applied(name) ==
    /\ Delivered
    /\ NewEvent.eventName = name
    /\ NewEvent.processingError = NULL
LastEvent == webhookEvents[Len(webhookEvents)]
SubscriptionRows(subs, id) == {k \in DOMAIN subs : subs[k].lemonSqueezyId = id}

\* C7: delivering the subscription_created payload that was delivered just
\* before leaves users, plans and subscriptions as the first delivery left
\* them, with exactly one subscription row for the external id.
C7_IdempotentReplay ==
    [][(/\ Len(webhookEvents) > 0
        /\ Delivered
        /\ NewEvent.eventName = "subscription_created"
        /\ NewEvent.body = LastEvent.body)
       => /\ users' = users
          /\ plans' = plans
          /\ subscriptions' = subscriptions
          /\ NewEvent.processingError = LastEvent.processingError
          /\ NewEvent.processingError = NULL
                => Cardinality(SubscriptionRows(subscriptions', NewEvent.body.id)) = 1
      ]_vars

\* C7 witness: the same subscription_created payload, for a variant that had
\* no plan, was applied twice in a row: one subscription, one new plan.
C7_Witness ==
    /\ Len(webhookEvents) >= 2
    /\ LET a == webhookEvents[Len(webhookEvents) - 1]
           b == LastEvent
       IN  /\ a.body = b.body
           /\ b.eventName = "subscription_created"
           /\ a.processingError = NULL /\ b.processingError = NULL
           /\ a.processed /\ b.processed
           /\ b.body.variant_id = 2
           /\ Cardinality(SubscriptionRows(subscriptions, b.body.id)) = 1
    /\ Len(plans) = 2
    /\ plans[2] = [variantId |-> 2, price |-> "0"]
    /\ users["alice"].subscriptionTier = "pro"

\* C8: cancellation does not downgrade: after a subscription_cancelled event
\* with a future ends_at is applied to the user who holds that subscription,
\* the user's tier is pro, the status cancelled and currentPeriodEnd = ends_at.
C8_CancelKeepsPro ==
    [][(/\ Applied("subscription_cancelled")
        /\ NewEvent.body.ends_at > now
        /\ users[NewEvent.body.user_id].lemonSqueezySubscriptionId = NewEvent.body.id)
       => LET u == users'[NewEvent.body.user_id] IN
          /\ u.subscriptionTier = "pro"
          /\ u.subscriptionStatus = "cancelled"
          /\ u.currentPeriodEnd = NewEvent.body.ends_at
      ]_vars

\* C9: a user's tier goes from pro to free only in a step that applies a
\* subscription_expired event.
C9_OnlyExpiredRevokes ==
    [][\A u \in DOMAIN users :
          (users[u].subscriptionTier = "pro" /\ users'[u].subscriptionTier = "free")
          => Applied("subscription_expired")
      ]_vars

UpsertEvents == {"subscription_created", "subscription_updated", "subscription_resumed"}

Authentic(payload, signature, secret) ==
    secret # NULL /\ signature = Hmac(secret, payload)
BillingUnchanged ==
    /\ webhookEvents' = webhookEvents
    /\ subscriptions' = subscriptions
    /\ plans' = plans
    /\ users' = users

\* C12: a request whose signature is missing or is not the HMAC of the body,
\* or that arrives when no secret is configured, is answered 401 and leaves
\* the webhook log, subscriptions, plans and users as they were; and whenever
\* the answer is 401 nothing was written.
C12_SignatureRejection ==
    [][/\ \/ (httpStatus' = 401 /\ BillingUnchanged)
          \/ ~\E payload \in LatePayloads :
                \E request \in SignedRequests(payload) :
                   /\ ~Authentic(payload, request[1], request[2])
                   /\ POST(payload, request[1], request[2])
       /\ (httpStatus' = 401 /\ httpStatus' # httpStatus) => BillingUnchanged
      ]_vars

\* C12 witness: a subscriber exists, and the last request was answered 401.
C12_Witness ==
    /\ httpStatus = 401
    /\ Len(webhookEvents) = 1
    /\ webhookEvents[1].processingError = NULL
    /\ users["alice"].subscriptionTier = "pro"
    /\ Len(subscriptions) = 1

\* a request that is being processed, and its row in the webhook log
Processing(h) == handlers[h].pc # "idle"
HasStoredRow(events, handler) ==
    /\ handler.eventId \in DOMAIN events
    /\ events[handler.eventId].body = handler.payload
    /\ events[handler.eventId].eventName = handler.payload.event_name

\* C13: the webhook_events row of an accepted delivery is stored before any
\* write of that delivery to subscriptions, plans or users: every step that
\* changes one of them is taken by a request whose row is already in the log,
\* every request past the signature check has its row, and rows stay, also
\* when the process dies during processing.
C13_LogThenApply ==
    [][/\ (users' # users \/ plans' # plans \/ subscriptions' # subscriptions)
          => \E h \in Handlers :
                /\ Processing(h)
                /\ handlers'[h] # handlers[h]
                /\ HasStoredRow(webhookEvents, handlers[h])
       /\ \A h \in Handlers :
             handlers'[h].pc # "idle" => HasStoredRow(webhookEvents', handlers'[h])
       /\ \A k \in DOMAIN webhookEvents :
             /\ k \in DOMAIN webhookEvents'
             /\ webhookEvents'[k].body = webhookEvents[k].body
             /\ webhookEvents'[k].eventName = webhookEvents[k].eventName
      ]_vars

\* C13 witness: the process died after writing the subscription and before
\* updating the user; the event's row is in the log, not yet processed.
C13_Witness ==
    /\ \A h \in Handlers : ~Processing(h)
    /\ Len(webhookEvents) = 1
    /\ webhookEvents[1].body = Payload("subscription_created", "alice", "sub_1", 2, "active")
    /\ ~webhookEvents[1].processed
    /\ Len(plans) = 2
    /\ Len(subscriptions) = 1
    /\ users["alice"].subscriptionTier = "free"

\* C14: when applying a stored event fails (no user_id, unknown user), the
\* message is recorded as processingError on the event's row, the row has
\* processed = true, the response is 200 and no billing table changes.
C14_FailuresAbsorbed ==
    [][(Delivered /\ NewEvent.eventName \in subscriptionEvents
          /\ (NewEvent.body.user_id = NoUser \/ NewEvent.body.user_id \notin DOMAIN users))
       => /\ NewEvent.processed
          /\ NewEvent.processingError =
                IF NewEvent.body.user_id = NoUser
                THEN "No user_id found in webhook custom_data"
                ELSE "User not found"
          /\ httpStatus' = 200
          /\ users' = users /\ plans' = plans /\ subscriptions' = subscriptions
          /\ \A k \in DOMAIN webhookEvents : webhookEvents'[k] = webhookEvents[k]
      ]_vars

\* C14 witness: an event for an unknown user was received after a good one;
\* its row carries the error and the response was 200.
C14_Witness ==
    /\ Len(webhookEvents) = 2
    /\ webhookEvents[1].processingError = NULL
    /\ webhookEvents[2].body.user_id = "ghost"
    /\ webhookEvents[2].processed
    /\ webhookEvents[2].processingError = "User not found"
    /\ httpStatus = 200
    /\ users["alice"].subscriptionTier = "pro"

\* what one delivery of the payload leaves, starting from the initial tables
SingleDelivery(payload) ==
    processSubscriptionEvent([u \in {"alice"} |-> NewUser], SyncedPlans, <<>>,
                             payload, 0)
TwoDeliveriesDone ==
    /\ \A h \in Handlers : ~Processing(h)
    /\ Len(webhookEvents) = 2
    /\ webhookEvents[1].processed /\ webhookEvents[2].processed
    /\ webhookEvents[1].body = webhookEvents[2].body
    /\ webhookEvents[1].eventName \in subscriptionEvents
    /\ SingleDelivery(webhookEvents[1].body).error = NULL

\* C15: two deliveries of the same subscription event, interleaved at the
\* database operations, both complete without a processing error and leave
\* subscriptions, plans and users as one delivery does.
C15_ConcurrentDuplicateSafe ==
    TwoDeliveriesDone
    => LET single == SingleDelivery(webhookEvents[1].body) IN
       /\ webhookEvents[1].processingError = NULL
       /\ webhookEvents[2].processingError = NULL
       /\ subscriptions = single.subscriptions
       /\ plans = single.plans
       /\ users = single.users

\* C16: at any read time a subscriber stored with tier free and status
\* cancelled whose currentPeriodEnd is still in the future is treated as Pro
\* by isUserPro, isUserOnPaidTier and getGroupLimitStatus.
C16_ReadTimeProRule ==
    \A u \in DOMAIN users :
        (/\ users[u].lemonSqueezySubscriptionId # NULL
         /\ users[u].subscriptionTier = "free"
         /\ users[u].subscriptionStatus = "cancelled"
         /\ users[u].currentPeriodEnd > now)
        => /\ isUserPro(users, u)
           /\ isUserOnPaidTier(users, u)
           /\ getGroupLimitStatus(users, u, FREE_GROUP_LIMIT).isPro
           /\ getGroupLimitStatus(users, u, FREE_GROUP_LIMIT).canCreateGroup

\* C17: an expense row never exists without its complete set of splits,
\* items and assignments, also after a call failed part-way.
C17_AtomicExpenseCreation ==
    \A e \in DOMAIN expenses :
        /\ [k \in 1..Cardinality(SplitRows(e)) |->
               expenseSplits[CHOOSE j \in SplitRows(e) :
                                Cardinality({i \in SplitRows(e) : i < j}) = k - 1]]
           = SplitsToInsert(e, req)
        /\ IsByItem(req) => Cardinality(ItemRows(e)) = Len(req.items)

\* C18: across deliveries and reprocessing runs, no event row is deleted,
\* a row keeps the eventName and body stored at receipt, and processed never
\* goes from true back to false.
C18_EventsAppendOnly ==
    [][\A k \in DOMAIN webhookEvents :
          /\ k \in DOMAIN webhookEvents'
          /\ webhookEvents'[k].eventName = webhookEvents[k].eventName
          /\ webhookEvents'[k].body = webhookEvents[k].body
          /\ webhookEvents[k].processed => webhookEvents'[k].processed
          /\ DOMAIN webhookEvents'[k] = DOMAIN webhookEvents[k]
      ]_vars

\* C18 witness: one failed event was reprocessed with success after the user
\* signed up, another failed again; both rows are as received.
C18_Witness ==
    /\ Len(webhookEvents) = 2
    /\ \E j, k \in DOMAIN webhookEvents :
          /\ webhookEvents[j].body = Payload("subscription_created", "ghost", "sub_9", 1, "active")
          /\ webhookEvents[j].eventName = "subscription_created"
          /\ webhookEvents[j].processed
          /\ webhookEvents[j].processingError = NULL
          /\ webhookEvents[k].body = Payload("subscription_created", NoUser, "sub_9", 1, "active")
          /\ webhookEvents[k].processed
          /\ webhookEvents[k].processingError
                = "Reprocess failed: No user_id found in webhook custom_data"
    /\ "ghost" \in DOMAIN users
    /\ users["ghost"].subscriptionTier = "pro"

\* the webhook handler's processSubscriptionEvent applied to the failed
\* events in the given order
RECURSIVE HandlerFrom(_, _, _, _)
HandlerFrom(order, i, st, today) ==
    IF i > Len(order) THEN st
    ELSE LET result == processSubscriptionEvent(st.users, st.plans, st.subscriptions,
                                                st.events[order[i]].body, today)
         IN  HandlerFrom(order, i + 1,
                 IF result.error = NULL
                 THEN [st EXCEPT !.users = result.users, !.plans = result.plans,
                                 !.subscriptions = result.subscriptions]
                 ELSE st,
                 today)
ReprocessStep ==
    /\ FailedEvents(webhookEvents) # {}
    /\ Len(webhookEvents') = Len(webhookEvents)
    /\ webhookEvents' # webhookEvents

\* C19: a reprocessing run leaves the subscriptions and the users (tier,
\* status, pause flag, period end, external subscription id) that the webhook
\* handler's processSubscriptionEvent leaves when it applies the same failed
\* events to the same state.
C19_ReprocessEquivalence ==
    [][ReprocessStep
       => \E order \in Orders(FailedEvents(webhookEvents)) :
             LET st == HandlerFrom(order, 1,
                           [users |-> users, plans |-> plans,
                            subscriptions |-> subscriptions, events |-> webhookEvents],
                           now)
             IN  users' = st.users /\ subscriptions' = st.subscriptions
      ]_vars

StatusOfEvent(payload) ==
    CASE payload.event_name = "subscription_paused" -> "paused"
      [] payload.event_name = "subscription_expired" -> "expired"
      [] OTHER -> payload.status

\* C21: after any subscription event (created, updated, resumed, paused,
\* cancelled or expired) for an external id is processed without error, in
\* any arrival order, exactly one subscription row for that id exists and its
\* status reflects the event.
C21_UpsertByExternalId ==
    [][(/\ Delivered
        /\ NewEvent.eventName \in subscriptionEvents
        /\ NewEvent.processed
        /\ NewEvent.processingError = NULL)
       => LET payload == NewEvent.body IN
          /\ Cardinality(SubscriptionRows(subscriptions', payload.id)) = 1
          /\ \A k \in SubscriptionRows(subscriptions', payload.id) :
                subscriptions'[k].status = StatusOfEvent(payload)
      ]_vars

\* ------------------------------------------------- subscription.ts
\* What the Lemon Squeezy API answers to cancelSubscription and
\* updateSubscription: an error, or the subscription's attributes after the
\* change.
NoAnswer ==
    [error |-> TRUE, status |-> "none", ends_at |-> NoDate, renews_at |-> NoDate,
     paused |-> FALSE]
CancelAnswers ==
    {NoAnswer,
     [error |-> FALSE, status |-> "cancelled", ends_at |-> EndsAt,
      renews_at |-> NoDate, paused |-> FALSE]}
PauseAnswers ==
    {NoAnswer,
     [error |-> FALSE, status |-> "paused", ends_at |-> NoDate,
      renews_at |-> RenewsAt, paused |-> TRUE]}
UnpauseAnswers ==
    {NoAnswer,
     [error |-> FALSE, status |-> "active", ends_at |-> NoDate,
      renews_at |-> RenewsAt, paused |-> FALSE]}

\* auth(), then the check that the subscription row belongs to the caller
Unauthorized(caller, subscriptionId) ==
    \/ caller = NoUser
    \/ \A k \in DOMAIN subscriptions :
          subscriptions[k].lemonSqueezyId = subscriptionId
          => subscriptions[k].userId # caller

\* the part the three actions share: the checks, the call to the provider,
\* then the two updates
SubscriptionAction(caller, subscriptionId, answer, subsAfter, userAfter, done) ==
    IF caller = NoUser
    THEN /\ response' = "User must be authenticated"
         /\ UNCHANGED <<users, subscriptions>>
    ELSE IF Unauthorized(caller, subscriptionId)
    THEN /\ response' = "Subscription not found or unauthorized"
         /\ UNCHANGED <<users, subscriptions>>
    ELSE IF answer.error
    THEN /\ response' = "provider error"
         /\ UNCHANGED <<users, subscriptions>>
    ELSE /\ subscriptions' = subsAfter
         /\ users' = [users EXCEPT ![caller] = userAfter]
         /\ response' = done

cancelSub(caller, subscriptionId, answer) ==
    SubscriptionAction(caller, subscriptionId, answer,
        SetSubscriptionEnd(subscriptions, subscriptionId, answer.status, answer.ends_at),
        IF caller \in DOMAIN users
        THEN [users[caller] EXCEPT !.subscriptionStatus = answer.status]
        ELSE NewUser,
        "cancelledSub")

pauseUserSubscription(caller, subscriptionId, answer) ==
    SubscriptionAction(caller, subscriptionId, answer,
        SetSubscriptionStatus(subscriptions, subscriptionId, answer.status, answer.paused),
        IF caller \in DOMAIN users
        THEN [users[caller] EXCEPT !.subscriptionStatus = answer.status,
                                   !.isPaused = answer.paused]
        ELSE NewUser,
        "pausedSub")

unpauseUserSubscription(caller, subscriptionId, answer) ==
    SubscriptionAction(caller, subscriptionId, answer,
        [k \in DOMAIN subscriptions |->
            IF subscriptions[k].lemonSqueezyId = subscriptionId
            THEN [subscriptions[k] EXCEPT !.status = answer.status,
                                          !.isPaused = answer.paused,
                                          !.renewsAt = answer.renews_at]
            ELSE subscriptions[k]],
        IF caller \in DOMAIN users
        THEN [users[caller] EXCEPT !.subscriptionStatus = answer.status,
                                   !.isPaused = answer.paused,
                                   !.currentPeriodEnd = answer.renews_at]
        ELSE NewUser,
        "unpausedSub")

SubscriptionIds == {"sub_1", "sub_2"}

CallCancelSub ==
    /\ \E caller \in Callers, id \in SubscriptionIds, answer \in CancelAnswers :
          cancelSub(caller, id, answer)
    /\ UNCHANGED <<plans, webhookEvents, now, httpStatus, handlers>>
    /\ UNCHANGED <<req, expenseVars, formVars, serviceVars>>

CallPauseSub ==
    /\ \E caller \in Callers, id \in SubscriptionIds, answer \in PauseAnswers :
          pauseUserSubscription(caller, id, answer)
    /\ UNCHANGED <<plans, webhookEvents, now, httpStatus, handlers>>
    /\ UNCHANGED <<req, expenseVars, formVars, serviceVars>>

CallUnpauseSub ==
    /\ \E caller \in Callers, id \in SubscriptionIds, answer \in UnpauseAnswers :
          unpauseUserSubscription(caller, id, answer)
    /\ UNCHANGED <<plans, webhookEvents, now, httpStatus, handlers>>
    /\ UNCHANGED <<req, expenseVars, formVars, serviceVars>>

\* the events the provider sends about alice's subscription
SubscriberPayloads ==
    {Payload("subscription_created", "alice", "sub_1", 1, "active"),
     Payload("subscription_created", "alice", "sub_1", 1, "on_trial"),
     Payload("subscription_updated", "alice", "sub_1", 1, "active"),
     Payload("subscription_updated", "alice", "sub_1", 1, "paused"),
     Payload("subscription_updated", "alice", "sub_1", 1, "past_due"),
     Payload("subscription_updated", "alice", "sub_1", 1, "cancelled"),
     Payload("subscription_resumed", "alice", "sub_1", 1, "active"),
     Payload("subscription_paused", "alice", "sub_1", 1, "paused"),
     Payload("subscription_cancelled", "alice", "sub_1", 1, "cancelled"),
     Payload("subscription_expired", "alice", "sub_1", 1, "expired")}

DeliverToSubscriber ==
    /\ Len(webhookEvents) < MaxDeliveries
    /\ \E payload \in SubscriberPayloads :
          \E request \in SignedRequests(payload) : POST(payload, request[1], request[2])
    /\ UNCHANGED <<now, handlers, expenseVars, callVars, formVars, serviceVars>>

AccountNext ==
    \/ DeliverToSubscriber
    \/ CallCancelSub
    \/ CallPauseSub
    \/ CallUnpauseSub
    \/ Tick

AccountSpec == WebhookInit /\ [][AccountNext]_vars

\* the subscription rows of a user
RowsOfUser(subs, u) == {k \in DOMAIN subs : subs[k].userId = u}
\* the user's status and tier follow the user's one subscription row
Mirrors(us, subs, u) ==
    \A k \in RowsOfUser(subs, u) :
        /\ us[u].subscriptionStatus = subs[k].status
        /\ subs[k].status \in {"active", "on_trial"} => us[u].subscriptionTier = "pro"
\* a step in which one of the three actions went through for the caller
ActionSucceeded(caller) ==
    \E id \in SubscriptionIds :
        \/ \E answer \in CancelAnswers :
              ~answer.error /\ ~Unauthorized(caller, id) /\ cancelSub(caller, id, answer)
        \/ \E answer \in PauseAnswers :
              /\ ~answer.error /\ ~Unauthorized(caller, id)
              /\ pauseUserSubscription(caller, id, answer)
        \/ \E answer \in UnpauseAnswers :
              /\ ~answer.error /\ ~Unauthorized(caller, id)
              /\ unpauseUserSubscription(caller, id, answer)

\* C22: after every subscription event applied without error, and after
\* every successful cancelSub, pauseUserSubscription or
\* unpauseUserSubscription, a user who has a single subscription row has that
\* row's status as subscriptionStatus, and is on the pro tier whenever the
\* status is active or on_trial.
C22_UserMirrorsSubscription ==
    [][\A u \in DOMAIN users' :
          (/\ Cardinality(RowsOfUser(subscriptions', u)) = 1
           /\ \/ /\ Delivered
                 /\ NewEvent.eventName \in subscriptionEvents
                 /\ NewEvent.processingError = NULL
                 /\ NewEvent.body.user_id = u
                 /\ SubscriptionRows(subscriptions', NewEvent.body.id)
                        = RowsOfUser(subscriptions', u)
              \/ ActionSucceeded(u))
          => Mirrors(users', subscriptions', u)
      ]_vars

\* the users a request names as taking part in the expense
ParticipantsOf(data) ==
    IF IsByItem(data)
    THEN UNION {Range(data.items[i].assignedTo) :
                   i \in {j \in DOMAIN data.items : ~data.items[j].isSharedCost}}
    ELSE IF IsCustom(data)
    THEN {data.customSplits[i].userId : i \in DOMAIN data.customSplits}
    ELSE Range(data.splitBetween)

\* C23: every expense created by createExpenseAction, with any split method,
\* has exactly one split row per participating user: no user has two split
\* rows for the expense and no participant is left without one.
C23_OneSplitPerParticipant ==
    response = "success"
    => \A e \in DOMAIN expenses :
          /\ \A u \in ParticipantsOf(req) : Cardinality(SplitRowsOf(e, u)) = 1
          /\ \A k \in SplitRows(e) : expenseSplits[k].userId \in ParticipantsOf(req)

\* C24: when a by_item expense has no non-shared spend but positive shared
\* costs and participants, the shared total is divided equally among the
\* participating users: every participant has a split row, the rows carry
\* the same amount, and they sum to the expense amount.
C24_SharedOnlySplitEqually ==
    \A e \in DOMAIN expenses :
        (/\ response = "success"
         /\ expenses[e].splitMethod = "by_item"
         /\ StoredNonShared(e) = 0
         /\ StoredShared(e) > 0
         /\ ItemUsers(e) # {}
         /\ expenses[e].amount = StoredShared(e))
        => /\ \A u \in ItemUsers(e) : SplitRowsOf(e, u) # {}
           /\ \A j, k \in SplitRows(e) : expenseSplits[j].amount = expenseSplits[k].amount
           /\ SplitSum(e) = expenses[e].amount

\* ------------------------------------------------- ManualExpenseModal: items
\* The by_item part of the form: the participants, the item list with each
\* item's assignees, tax and tip.  Prices are typed in; every item has
\* quantity 1.
ItemPrices == {0, 1, 2}
TaxTipAmounts == {0, 1}

\* the form's by_item controls are rendered in by_item mode
ItemMode == modalOpen /\ formSplitType = "by_item"

\* addItem(): an unnamed item without a price, assigned to the participants
addItem ==
    /\ ItemMode
    /\ Len(items) < MaxItems
    /\ items' = Append(items, [price |-> 0, quantity |-> 1, isSharedCost |-> FALSE,
                               assignedTo |-> SeqOfSet(participants)])
    /\ UNCHANGED <<modalOpen, formSplitType, formAmount, formSplitBetween,
                   customAmounts, participants, tax, tip>>
    /\ UNCHANGED <<expenseVars, callVars, billingVars, serviceVars>>

removeItem ==
    /\ ItemMode
    /\ \E i \in DOMAIN items :
          items' = [k \in 1..(Len(items) - 1) |-> IF k < i THEN items[k] ELSE items[k + 1]]
    /\ UNCHANGED <<modalOpen, formSplitType, formAmount, formSplitBetween,
                   customAmounts, participants, tax, tip>>
    /\ UNCHANGED <<expenseVars, callVars, billingVars, serviceVars>>

\* updateItem(item.id, { price })
updateItem ==
    /\ ItemMode
    /\ \E i \in DOMAIN items, price \in ItemPrices :
          /\ price # items[i].price
          /\ items' = [items EXCEPT ![i].price = price]
    /\ UNCHANGED <<modalOpen, formSplitType, formAmount, formSplitBetween,
                   customAmounts, participants, tax, tip>>
    /\ UNCHANGED <<expenseVars, callVars, billingVars, serviceVars>>

\* assignedTo.filter(id => id !== memberId)
Without(assignedTo, memberId) == SelectSeq(assignedTo, LAMBDA id : id # memberId)

\* one button per participating member under every item
toggleMemberForItem ==
    /\ ItemMode
    /\ \E i \in DOMAIN items, memberId \in participants :
          items' = [items EXCEPT ![i].assignedTo =
                       IF memberId \in Range(@) THEN Without(@, memberId)
                       ELSE Append(@, memberId)]
    /\ UNCHANGED <<modalOpen, formSplitType, formAmount, formSplitBetween,
                   customAmounts, participants, tax, tip>>
    /\ UNCHANGED <<expenseVars, callVars, billingVars, serviceVars>>

\* a member who stops participating is taken off every item; the effect on
\* participants.length then refills an empty list with every member
toggleParticipant ==
    /\ ItemMode
    /\ \E memberId \in Members :
          IF memberId \in participants
          THEN /\ items' = [k \in DOMAIN items |->
                               [items[k] EXCEPT !.assignedTo = Without(@, memberId)]]
               /\ participants' = ParticipantsEffect(formSplitType,
                                                     participants \ {memberId})
          ELSE /\ participants' = participants \cup {memberId}
               /\ UNCHANGED items
    /\ UNCHANGED <<modalOpen, formSplitType, formAmount, formSplitBetween,
                   customAmounts, tax, tip>>
    /\ UNCHANGED <<expenseVars, callVars, billingVars, serviceVars>>

setTax ==
    /\ ItemMode
    /\ \E value \in TaxTipAmounts : value # tax /\ tax' = value
    /\ UNCHANGED <<modalOpen, formSplitType, formAmount, formSplitBetween,
                   customAmounts, items, participants, tip>>
    /\ UNCHANGED <<expenseVars, callVars, billingVars, serviceVars>>

setTip ==
    /\ ItemMode
    /\ \E value \in TaxTipAmounts : value # tip /\ tip' = value
    /\ UNCHANGED <<modalOpen, formSplitType, formAmount, formSplitBetween,
                   customAmounts, items, participants, tax>>
    /\ UNCHANGED <<expenseVars, callVars, billingVars, serviceVars>>

\* itemBasedSummary, first loop: userSubtotals and totalNonSharedCost
RECURSIVE PreviewSubtotals(_, _, _)
PreviewSubtotals(its, i, acc) ==
    IF i > Len(its) THEN acc
    ELSE LET itemTotal == its[i].price * its[i].quantity IN
         PreviewSubtotals(its, i + 1,
             IF Len(its[i].assignedTo) > 0
             THEN [userSubtotals |->
                       AddPerPerson(acc.userSubtotals, its[i].assignedTo,
                           RDiv(Rat(itemTotal), Rat(Len(its[i].assignedTo))), 1),
                   totalNonSharedCost |-> acc.totalNonSharedCost + itemTotal]
             ELSE acc)

\* itemBasedSummary: userBreakdowns[userId].total for every user it lists
itemBasedSummary(its, ps, taxAmount, tipAmount) ==
    LET first == PreviewSubtotals(its, 1, [userSubtotals |-> EmptyTotals,
                                           totalNonSharedCost |-> 0])
        totalSharedCost == taxAmount + tipAmount
        proportional == totalSharedCost > 0 /\ first.totalNonSharedCost > 0
        equally == /\ totalSharedCost > 0
                   /\ first.totalNonSharedCost = 0
                   /\ ps # {}
        allUserIds == (DOMAIN first.userSubtotals.val) \cup (IF equally THEN ps ELSE {})
        subtotal(u) == GetOr0(first.userSubtotals, u)
        sharedCost(u) ==
            IF proportional
            THEN RMul(Rat(totalSharedCost),
                      RDiv(subtotal(u), Rat(first.totalNonSharedCost)))
            ELSE IF equally /\ u \in ps
            THEN RDiv(Rat(totalSharedCost), Rat(Cardinality(ps)))
            ELSE Rat(0)
    IN  [u \in allUserIds |-> RAdd(subtotal(u), sharedCost(u))]

\* what the summary card shows: ${breakdown.total.toFixed(2)} per user
PreviewShown ==
    LET totals == itemBasedSummary(items, participants, tax, tip) IN
    {<<u, ToFixed2(totals[u])>> : u \in DOMAIN totals}

ItemFormNext ==
    \/ OpenModal
    \/ SetSplitType
    \/ addItem
    \/ removeItem
    \/ updateItem
    \/ toggleMemberForItem
    \/ toggleParticipant
    \/ setTax
    \/ setTip
    \/ onSubmit

ItemFormSpec == FormInit /\ [][ItemFormNext]_vars

\* C25: when a by_item form passes the submit validation, the per-user
\* totals the preview shows for its items, assignments, tax, tip and
\* participants are the users and amounts of the split rows that
\* createExpenseAction stores for it.
C25_PreviewEqualsPersisted ==
    [][(/\ ItemMode
        /\ Len(expenses') = Len(expenses) + 1
        /\ response' = "success")
       => PreviewShown
          = {<<expenseSplits'[k].userId, expenseSplits'[k].amount>> :
                k \in {j \in DOMAIN expenseSplits' :
                          expenseSplits'[j].expenseId = Len(expenses')}}
      ]_vars

\* ------------------------------------------------- recovery of failed events
\* The webhook handlers, which may die part-way, next to sign-ups and runs of
\* the reprocessing script.  A request that is being handled goes on unless
\* its process dies; the script is run again and again; a customer without a
\* users row signs up sooner or later.
HandlerStep(h) ==
    \/ FindUser(h)
    \/ FindPlanStep(h)
    \/ InsertPlan(h)
    \/ WriteSubscription(h)
    \/ UpdateUser(h)
    \/ Mark(h)

RecoveryNext ==
    \/ \E h \in Handlers : Receive(h) \/ HandlerStep(h) \/ Crash(h)
    \/ SignUp
    \/ Reprocess

RecoverySpec ==
    /\ WebhookInit
    /\ [][RecoveryNext]_vars
    /\ \A h \in Handlers : WF_vars(HandlerStep(h))
    /\ WF_vars(SignUp)
    /\ WF_vars(Reprocess)

\* the event row is stored and no request is working on it any more
AtRest(k) ==
    /\ k \in DOMAIN webhookEvents
    /\ \A h \in Handlers : handlers[h].pc # "idle" => handlers[h].eventId # k
\* the event went through
AppliedCleanly(k) ==
    /\ k \in DOMAIN webhookEvents
    /\ webhookEvents[k].processed
    /\ webhookEvents[k].processingError = NULL
\* what made the event fail no longer holds: its user exists
CauseFixed(k) ==
    /\ webhookEvents[k].body.user_id \in DOMAIN users
    /\ webhookEvents[k].eventName \in subscriptionEvents

\* C26: every stored event that was not successfully applied, whether an
\* error was recorded or the processing was interrupted before the row was
\* marked, is taken up by a later reprocessing run and, once its cause is
\* fixed, ends up processed with processingError cleared.
C26_FailedEventsRecovered ==
    \A k \in 1..MaxDeliveries :
        (AtRest(k) /\ ~AppliedCleanly(k) /\ CauseFixed(k)) ~> AppliedCleanly(k)

\* ------------------------------------------------- receipt scans
\* AI_SCAN_LIMITS
SCAN_LIMITS == [free |-> 3, pro |-> 50]

\* getMonth() and getFullYear() of a date: day 0 is the last day of a month,
\* the months after it have two days each
MonthOf(date) == (date + 1) \div 2

ScanCallers == {"alice", "eve", NoUser}

SetScanCall(c, call) == scanCalls' = [scanCalls EXCEPT ![c] = call]
\* the call is over: how it ended is noted next to what the check answered
EndScanCall(c, outcome) ==
    /\ SetScanCall(c, IdleScanCall)
    /\ scanChecks' = [scanChecks EXCEPT ![scanCalls[c].checkId].outcome = outcome]

\* processReceiptAction(formData) is called: auth()
StartScan(c) ==
    /\ scanCalls[c].pc = "idle"
    /\ Len(scanChecks) < MaxScans
    /\ \E caller \in ScanCallers, hasFile \in BOOLEAN :
          IF caller = NoUser
          THEN \* throws 'Unauthorized'
               UNCHANGED <<scanCalls, scanChecks>>
          ELSE /\ SetScanCall(c, [IdleScanCall EXCEPT !.pc = "read", !.userId = caller,
                                                      !.hasFile = hasFile,
                                                      !.checkId = Len(scanChecks) + 1])
               /\ scanChecks' = Append(scanChecks,
                                    [userId |-> caller, allowed |-> FALSE,
                                     month |-> NoDate, outcome |-> "running"])
    /\ UNCHANGED <<aiScanLogs, expenseVars, callVars, formVars, rateVars, digestVars, billingVars>>

\* checkAndUpdateScanLimit: db.query.users.findFirst, then shouldReset
ReadScanUsage(c) ==
    /\ scanCalls[c].pc = "read"
    /\ LET userId == scanCalls[c].userId IN
       IF userId \notin DOMAIN users
       THEN \* throws 'User not found'
            EndScanCall(c, "User not found")
       ELSE LET user == users[userId]
                shouldReset == \/ user.lastScanReset = NoDate
                               \/ MonthOf(user.lastScanReset) # MonthOf(now)
            IN  /\ SetScanCall(c, [scanCalls[c] EXCEPT
                       !.pc = IF shouldReset THEN "reset" ELSE "check",
                       !.limit = SCAN_LIMITS[user.subscriptionTier],
                       !.currentUsage = IF shouldReset THEN 0 ELSE user.monthlyAiScansUsed,
                       !.shouldReset = shouldReset,
                       !.lastScanReset = user.lastScanReset,
                       !.today = now])
                /\ UNCHANGED scanChecks
    /\ UNCHANGED <<aiScanLogs, expenseVars, callVars, formVars, rateVars, digestVars, billingVars>>

\* update(users).set({ monthlyAiScansUsed: 0, lastScanReset: now })
ResetScanUsage(c) ==
    /\ scanCalls[c].pc = "reset"
    /\ users' = [users EXCEPT ![scanCalls[c].userId] =
                    [@ EXCEPT !.monthlyAiScansUsed = 0,
                              !.lastScanReset = scanCalls[c].today]]
    /\ SetScanCall(c, [scanCalls[c] EXCEPT !.pc = "check"])
    /\ UNCHANGED <<scanChecks, aiScanLogs>>
    /\ UNCHANGED <<plans, subscriptions, webhookEvents, now, httpStatus, handlers>>
    /\ UNCHANGED <<expenseVars, callVars, formVars, rateVars, digestVars>>

\* if (currentUsage >= limit) the call is refused; otherwise
\* update(users).set({ monthlyAiScansUsed: currentUsage + 1, lastScanReset })
\* and the call goes on to formData.get('receipt')
CheckScanLimit(c) ==
    /\ scanCalls[c].pc = "check"
    /\ LET call == scanCalls[c]
           answer(allowed) == [scanChecks EXCEPT ![call.checkId].allowed = allowed,
                                                 ![call.checkId].month = MonthOf(call.today)]
       IN  IF call.currentUsage >= call.limit
           THEN /\ SetScanCall(c, IdleScanCall)
                /\ scanChecks' = [answer(FALSE) EXCEPT ![call.checkId].outcome = "refused"]
                /\ UNCHANGED users
           ELSE /\ users' = [users EXCEPT ![call.userId] =
                                [@ EXCEPT !.monthlyAiScansUsed = call.currentUsage + 1,
                                          !.lastScanReset =
                                              IF call.shouldReset THEN call.today
                                              ELSE call.lastScanReset]]
                /\ IF call.hasFile
                   THEN /\ SetScanCall(c, [call EXCEPT !.pc = "scan"])
                        /\ scanChecks' = answer(TRUE)
                   ELSE \* throws 'No receipt image provided'
                        /\ SetScanCall(c, IdleScanCall)
                        /\ scanChecks' = [answer(TRUE) EXCEPT
                                             ![call.checkId].outcome = "no receipt"]
    /\ UNCHANGED aiScanLogs
    /\ UNCHANGED <<plans, subscriptions, webhookEvents, now, httpStatus, handlers>>
    /\ UNCHANGED <<expenseVars, callVars, formVars, rateVars, digestVars>>

\* uploadReceiptImage and scanReceipt, then the row in ai_scan_logs: either
\* both go through, or one of them throws
ScanReceipt(c) ==
    /\ scanCalls[c].pc = "scan"
    /\ \E ok \in BOOLEAN :
          IF ok
          THEN /\ aiScanLogs' = Append(aiScanLogs, [userId |-> scanCalls[c].userId,
                                                    status |-> "success"])
               /\ EndScanCall(c, "success")
          ELSE /\ aiScanLogs' = Append(aiScanLogs, [userId |-> scanCalls[c].userId,
                                                    status |-> "failed"])
               /\ SetScanCall(c, [scanCalls[c] EXCEPT !.pc = "rollbackRead"])
               /\ UNCHANGED scanChecks
    /\ UNCHANGED <<expenseVars, callVars, formVars, rateVars, digestVars, billingVars>>

\* the rollback reads the counter ...
RollbackRead(c) ==
    /\ scanCalls[c].pc = "rollbackRead"
    /\ SetScanCall(c, [scanCalls[c] EXCEPT
           !.pc = "rollbackWrite",
           !.readBack = users[scanCalls[c].userId].monthlyAiScansUsed])
    /\ UNCHANGED <<scanChecks, aiScanLogs>>
    /\ UNCHANGED <<expenseVars, callVars, formVars, rateVars, digestVars, billingVars>>

\* ... and writes it back, less one
RollbackWrite(c) ==
    /\ scanCalls[c].pc = "rollbackWrite"
    /\ users' = [users EXCEPT ![scanCalls[c].userId] =
                    [@ EXCEPT !.monthlyAiScansUsed = scanCalls[c].readBack - 1]]
    /\ EndScanCall(c, "failed")
    /\ UNCHANGED aiScanLogs
    /\ UNCHANGED <<plans, subscriptions, webhookEvents, now, httpStatus, handlers>>
    /\ UNCHANGED <<expenseVars, callVars, formVars, rateVars, digestVars>>

ScanStep(c) ==
    \/ StartScan(c)
    \/ ReadScanUsage(c)
    \/ ResetScanUsage(c)
    \/ CheckScanLimit(c)
    \/ ScanReceipt(c)
    \/ RollbackRead(c)
    \/ RollbackWrite(c)

ScanNext == (\E c \in ScanCallIds : ScanStep(c)) \/ Tick

ScanSpec == WebhookInit /\ [][ScanNext]_vars

\* one call at a time
SoloScanNext == ScanStep(1) \/ Tick

SoloScanSpec == WebhookInit /\ [][SoloScanNext]_vars

\* the scans of a user that the limit check allowed in a month and that
\* went through
ScansDone(u, month) ==
    {k \in DOMAIN scanChecks :
        /\ scanChecks[k].userId = u
        /\ scanChecks[k].allowed
        /\ scanChecks[k].month = month
        /\ scanChecks[k].outcome = "success"}

\* C27: for each user and calendar month, the scans allowed by
\* checkAndUpdateScanLimit, and the stored monthlyAiScansUsed, never exceed
\* the limit of the user's tier (3 for free, 50 for pro), also when calls by
\* the same user run at the same time.
C27_ScanQuotaNeverExceeded ==
    \A u \in DOMAIN users :
        /\ users[u].monthlyAiScansUsed <= SCAN_LIMITS[users[u].subscriptionTier]
        /\ \A month \in 0..MonthOf(MaxTime) :
              Cardinality(ScansDone(u, month)) <= SCAN_LIMITS[users[u].subscriptionTier]

\* C28: when a processReceiptAction call that the limit check allowed ends
\* without a successful scan (upload or AI error, or no receipt file), the
\* user's monthlyAiScansUsed is what it was for the call before the check
\* counted it, and it is not negative.
C28_FailedScanKeepsQuota ==
    [][\A c \in ScanCallIds :
          (/\ scanCalls[c].pc \in {"check", "rollbackWrite"}
           /\ scanCalls'[c].pc = "idle"
           /\ scanChecks'[scanCalls[c].checkId].allowed
           /\ scanChecks'[scanCalls[c].checkId].outcome # "success")
          => /\ users'[scanCalls[c].userId].monthlyAiScansUsed = scanCalls[c].currentUsage
             /\ users'[scanCalls[c].userId].monthlyAiScansUsed >= 0
      ]_vars

\* ------------------------------------------------- rate limiter
\* The clock of the limiter counts seconds.  One configuration is in use, as
\* on the unsubscribe endpoint, with a window of two seconds.
CLEANUP_INTERVAL == 300
RateLimitConfig == [limit |-> 2, windowSeconds |-> 2]
Identifiers == {"unsubscribe:10.0.0.1", "unsubscribe:unknown"}

\* cleanup(): at most every five minutes, the entries that ran out are dropped
CleanedStore(store) ==
    IF now - lastCleanup < CLEANUP_INTERVAL
    THEN store
    ELSE [key \in {k \in DOMAIN store : ~(store[k].resetTime < now)} |-> store[key]]

SetEntry(store, key, entry) ==
    [k \in (DOMAIN store) \cup {key} |-> IF k = key THEN entry ELSE store[k]]

checkRateLimit(identifier, config) ==
    LET store == CleanedStore(rateLimitStore)
        answer(success) == Append(rateLimitResults,
                               [identifier |-> identifier, time |-> now,
                                success |-> success])
    IN  /\ lastCleanup' = IF now - lastCleanup < CLEANUP_INTERVAL THEN lastCleanup ELSE now
        /\ IF identifier \notin DOMAIN store \/ store[identifier].resetTime < now
           THEN \* new window
                /\ rateLimitStore' = SetEntry(store, identifier,
                                         [count |-> 1,
                                          resetTime |-> now + config.windowSeconds])
                /\ rateLimitResults' = answer(TRUE)
           ELSE LET newCount == store[identifier].count + 1 IN
                IF newCount > config.limit
                THEN /\ rateLimitStore' = store
                     /\ rateLimitResults' = answer(FALSE)
                ELSE /\ rateLimitStore' = SetEntry(store, identifier,
                                              [count |-> newCount,
                                               resetTime |-> store[identifier].resetTime])
                     /\ rateLimitResults' = answer(TRUE)

\* GET /api/unsubscribe from some address
CallCheckRateLimit ==
    /\ Len(rateLimitResults) < MaxCalls
    /\ \E identifier \in Identifiers : checkRateLimit(identifier, RateLimitConfig)
    /\ UNCHANGED <<scanVars, digestVars, expenseVars, callVars, formVars, billingVars>>

\* a second goes by
Elapse ==
    /\ now < MaxClock
    /\ now' = now + 1
    /\ UNCHANGED <<users, plans, subscriptions, webhookEvents, httpStatus, handlers>>
    /\ UNCHANGED <<expenseVars, callVars, formVars, serviceVars>>

RateNext == CallCheckRateLimit \/ Elapse

RateSpec == WebhookInit /\ [][RateNext]_vars

\* the calls of an identifier answered with success from time t up to, and
\* not including, t + windowSeconds
AcceptedIn(results, identifier, t) ==
    {k \in DOMAIN results :
        /\ results[k].identifier = identifier
        /\ results[k].success
        /\ t <= results[k].time
        /\ results[k].time < t + RateLimitConfig.windowSeconds}

\* C29: for every identifier and every interval of length windowSeconds,
\* checkRateLimit answers success to at most `limit` calls within the
\* interval; and a rejected call changes neither the stored count nor the
\* reset time.
C29_SlidingWindowLimit ==
    [][/\ \A identifier \in Identifiers, t \in 0..MaxClock :
             Cardinality(AcceptedIn(rateLimitResults', identifier, t))
                 <= RateLimitConfig.limit
       /\ (/\ Len(rateLimitResults') = Len(rateLimitResults) + 1
           /\ ~rateLimitResults'[Len(rateLimitResults')].success)
          => rateLimitStore' = rateLimitStore
      ]_vars

\* ------------------------------------------------- daily digest
\* The people notifications are queued for: alice and bob receive digests,
\* carol has turned them off, and the ghost member has no email address.
MaxNotifications == 2
NotifiedUsers == {"alice", "bob", "carol", "ghost"}
digestFrequency == [u \in NotifiedUsers |-> IF u = "carol" THEN "none" ELSE "daily"]
HasEmail(userId) == userId # "ghost"

Unprocessed(rows) == {n \in DOMAIN rows : ~rows[n].processed}

\* queueDigestNotification: one row, unless the user turned digests off
QueueNotification ==
    /\ Len(pendingNotifications) < MaxNotifications
    /\ \E userId \in NotifiedUsers :
          pendingNotifications' =
              IF digestFrequency[userId] = "none"
              THEN pendingNotifications
              ELSE Append(pendingNotifications,
                       [userId |-> userId, processed |-> FALSE])
    /\ UNCHANGED <<digestRuns, sentDigests>>
    /\ UNCHANGED <<scanVars, rateVars, expenseVars, callVars, formVars, billingVars>>

SetDigestRun(r, run) == digestRuns' = [digestRuns EXCEPT ![r] = run]

\* selectDistinct userId where processed = false; nothing pending ends the run
ReadPendingUsers(r) ==
    LET userIds == {pendingNotifications[n].userId :
                       n \in Unprocessed(pendingNotifications)}
    IN  /\ digestRuns[r].pc = "idle"
        /\ SetDigestRun(r, IF userIds = {}
                           THEN IdleDigestRun
                           ELSE [IdleDigestRun EXCEPT !.pc = "read",
                                                      !.userIds = userIds])
        /\ UNCHANGED <<pendingNotifications, sentDigests>>
        /\ UNCHANGED <<scanVars, rateVars, expenseVars, callVars, formVars, billingVars>>

\* findMany: the unprocessed notifications of these users
ReadNotifications(r) ==
    /\ digestRuns[r].pc = "read"
    /\ SetDigestRun(r, [digestRuns[r] EXCEPT
           !.pc = "send",
           !.allNotifications =
               {n \in Unprocessed(pendingNotifications) :
                   pendingNotifications[n].userId \in digestRuns[r].userIds}])
    /\ UNCHANGED <<pendingNotifications, sentDigests>>
    /\ UNCHANGED <<scanVars, rateVars, expenseVars, callVars, formVars, billingVars>>

\* one turn of the loop over userIds: the user is skipped, or the digest is
\* sent and its notifications are remembered when sendEmail succeeded
SendDigest(r) ==
    LET run == digestRuns[r] IN
    /\ run.pc = "send"
    /\ run.userIds # {}
    /\ \E userId \in run.userIds, success \in BOOLEAN :
          LET userNotifications ==
                  {n \in run.allNotifications :
                      pendingNotifications[n].userId = userId}
              skipped == \/ ~HasEmail(userId)
                         \/ digestFrequency[userId] = "none"
                         \/ userNotifications = {}
          IN  /\ skipped => success
              /\ sentDigests' =
                     IF ~skipped /\ success
                     THEN Append(sentDigests,
                              [to |-> userId, ids |-> userNotifications])
                     ELSE sentDigests
              /\ SetDigestRun(r, [run EXCEPT
                     !.userIds = run.userIds \ {userId},
                     !.processedIds =
                         IF ~skipped /\ success
                         THEN run.processedIds \cup userNotifications
                         ELSE run.processedIds])
    /\ UNCHANGED pendingNotifications
    /\ UNCHANGED <<scanVars, rateVars, expenseVars, callVars, formVars, billingVars>>

\* update ... set processed = true where id in processedIds, and return
MarkNotificationsProcessed(r) ==
    LET run == digestRuns[r] IN
    /\ run.pc = "send"
    /\ run.userIds = {}
    /\ pendingNotifications' =
           [n \in DOMAIN pendingNotifications |->
               IF n \in run.processedIds
               THEN [pendingNotifications[n] EXCEPT !.processed = TRUE]
               ELSE pendingNotifications[n]]
    /\ SetDigestRun(r, IdleDigestRun)
    /\ UNCHANGED sentDigests
    /\ UNCHANGED <<scanVars, rateVars, expenseVars, callVars, formVars, billingVars>>

DigestStep(r) ==
    \/ ReadPendingUsers(r)
    \/ ReadNotifications(r)
    \/ SendDigest(r)
    \/ MarkNotificationsProcessed(r)

DigestNext == QueueNotification \/ \E r \in DigestRunIds : DigestStep(r)

DigestSpec == WebhookInit /\ [][DigestNext]_vars

\* the digests sent so far that contain notification n
DigestsWith(n) == {k \in DOMAIN sentDigests : n \in sentDigests[k].ids}

\* C30: every pending notification is in at most one successfully sent
\* digest email, and a notification marked processed is in a digest that was
\* sent successfully; this holds also when two cron runs overlap.
C30_DigestAtMostOnce ==
    \A n \in DOMAIN pendingNotifications :
        /\ Cardinality(DigestsWith(n)) <= 1
        /\ pendingNotifications[n].processed => DigestsWith(n) # {}

====
